---- MODULE Spec2Model ----
(***************************************************************************)
(* State-machine model of the SimWorld city generator core: the quadtree   *)
(* spatial index, the proposal priority queue, the road edit API and road  *)
(* generation driver, and the building / element managers.                 *)
(*                                                                         *)
(* Coordinates are integers.  Every halving the code performs (width / 2,  *)
(* height / 2) is applied to even numbers only, so integer division is     *)
(* exact where the code uses float division.                               *)
(***************************************************************************)
EXTENDS Integers, Sequences, FiniteSets, TLC

VARIABLES
    qt,          \* QuadTree: node path -> [objects, items, split]
    inserted,    \* history of insert(bounds, item) calls on qt
    removed,     \* items for which qt.remove(...) has returned True
    elements,    \* PriorityQueue.elements
    pqRet,       \* return value of the last PriorityQueue.dequeue call
    roads,       \* RoadManager.roads
    issued,      \* ids returned by add_road: id -> the road the caller was given it for
    queue,       \* the road generator's proposal queue (PriorityQueue.elements)
    intersections, \* the intersections recorded by find_intersections
    num_segments,  \* argument of the running generate_road_network call
    pc,          \* position inside generate_road_network
    buildings,   \* BuildingManager.buildings
    building_quadtree, \* BuildingManager.building_quadtree
    rotation_arg,  \* the rotation argument of the last Building(...) call
    em_elements, \* ElementManager.elements
    element_quadtree,\* ElementManager.element_quadtree
    angle_ret, \* return value of the last Segment.get_angle call
    current_angles,\* return value of the last RoadUtils.get_current_angles call
    city_generator, \* the city generator the DataExporter was constructed with
    files, \* output_dir, file name -> the JSON document written there
    world_history, \* progen_world.json as written by each export_to_json run over this city
    export_raised,\* the exception the last export_to_json call ended with
    routes, \* RouteManager.routes
    stats, \* return value of the last get_point_around_label call
    label_call,\* the arguments of that call
    nodes, \* Map.nodes
    edges, \* Map.edges
    adjacency_list, \* Map.adjacency_list, node -> list of neighbours
    road_objects, \* the roads every initializa_map call so far has read
    edge_distance, \* the last get_edge_distance_between_two_points call, arguments and outcome
    random_node, \* the outcome of the last get_random_node call
    map_loads,\* the number of initializa_map calls on the Map
    constructed,\* the last QuadTree / BuildingManager / ElementManager constructor call, arguments and outcome
    intersect_call,\* the last do_line_segments_intersect call, arguments and return value
    sampler_pc, \* position inside the running get_random_node_with_distance call
    sampler_call, \* the arguments of the last sampler call and its candidates
    sampler_draw, \* node and base drawn in the last turn of the sampling loop
    sampler_ret,\* the outcome of the last sampler call
    merge_call,\* the last call of RoadUtils.merge_point_if_close and its effect
    retry_pc, \* where a call of a retry wrapper stands, "idle", "for" or "done"
    retry_call, \* the decorator and max_retries of the wrapper called
    attempt, \* the loop variable of the wrapper
    retry_log, \* the outcomes of the invocations of func in this call, in order
    last_exception, \* last_exception of the wrapper
    retry_ret \* what the wrapper returned or raised

qtVars == <<qt, inserted, removed>>

pqVars == <<elements, pqRet>>

roadVars == <<roads, issued, queue, intersections, num_segments, pc>>

buildingVars == <<buildings, building_quadtree, rotation_arg>>

elementVars == <<em_elements, element_quadtree>>

angleVars == <<angle_ret, current_angles>>

exportVars == <<city_generator, files, world_history, export_raised>>

routeVars == <<routes, stats, label_call>>

mapVars == <<nodes, edges, adjacency_list, road_objects, edge_distance, random_node, map_loads>>

configVars == <<constructed>>

intersectVars == <<intersect_call>>

samplerVars == <<sampler_pc, sampler_call, sampler_draw, sampler_ret>>

mergeVars == <<merge_call>>

retryVars == <<retry_pc, retry_call, attempt, retry_log, last_exception, retry_ret>>

vars == <<qt, inserted, removed, elements, pqRet,
          roads, issued, queue, intersections, num_segments, pc,
          buildings, building_quadtree, rotation_arg, em_elements, element_quadtree,
          angle_ret, current_angles,
          city_generator, files, world_history, export_raised,
          routes, stats, label_call,
          nodes, edges, adjacency_list, road_objects, edge_distance, random_node, map_loads,
          constructed,
          intersect_call,
          sampler_pc, sampler_call, sampler_draw, sampler_ret,
          merge_call,
          retry_pc, retry_call, attempt, retry_log, last_exception, retry_ret>>

\* what the operations of one component leave alone
qtOthers == <<pqVars, roadVars, buildingVars, elementVars, angleVars, exportVars, routeVars, mapVars, configVars, intersectVars, samplerVars, mergeVars, retryVars>>

pqOthers == <<qtVars, roadVars, buildingVars, elementVars, angleVars, exportVars, routeVars, mapVars, configVars, intersectVars, samplerVars, mergeVars, retryVars>>

roadOthers == <<qtVars, pqVars, buildingVars, elementVars, angleVars, exportVars, routeVars, mapVars, configVars, intersectVars, samplerVars, mergeVars, retryVars>>

buildingOthers == <<qtVars, pqVars, roadVars, elementVars, angleVars, exportVars, routeVars, mapVars, configVars, intersectVars, samplerVars, mergeVars, retryVars>>

elementOthers == <<qtVars, pqVars, roadVars, buildingVars, angleVars, exportVars, routeVars, mapVars, configVars, intersectVars, samplerVars, mergeVars, retryVars>>

angleOthers == <<qtVars, pqVars, roadVars, buildingVars, elementVars, exportVars, routeVars, mapVars, configVars, intersectVars, samplerVars, mergeVars, retryVars>>

exportOthers == <<qtVars, pqVars, roadVars, buildingVars, elementVars, angleVars, routeVars, mapVars, configVars, intersectVars, samplerVars, mergeVars, retryVars>>

routeOthers == <<qtVars, pqVars, roadVars, buildingVars, elementVars, angleVars, exportVars, mapVars, configVars, intersectVars, samplerVars, mergeVars, retryVars>>

mapOthers == <<qtVars, pqVars, roadVars, buildingVars, elementVars, angleVars, exportVars, routeVars, configVars, intersectVars, samplerVars, mergeVars, retryVars>>

configOthers == <<qtVars, pqVars, roadVars, buildingVars, elementVars, angleVars, exportVars, routeVars, mapVars, intersectVars, samplerVars, mergeVars, retryVars>>

intersectOthers == <<qtVars, pqVars, roadVars, buildingVars, elementVars, angleVars, exportVars, routeVars, mapVars, configVars, samplerVars, mergeVars, retryVars>>

samplerOthers == <<qtVars, pqVars, roadVars, buildingVars, elementVars, angleVars, exportVars, routeVars, mapVars, configVars, intersectVars, mergeVars, retryVars>>

\* what neither the Map nor its samplers touch
graphOthers == <<qtVars, pqVars, roadVars, buildingVars, elementVars, angleVars, exportVars, routeVars, configVars, intersectVars, mergeVars, retryVars>>

mergeOthers == <<qtVars, pqVars, roadVars, buildingVars, elementVars, angleVars, exportVars, routeVars, mapVars, configVars, intersectVars, samplerVars, retryVars>>

retryOthers == <<qtVars, pqVars, roadVars, buildingVars, elementVars, angleVars, exportVars, routeVars, mapVars, configVars, intersectVars, samplerVars, mergeVars>>

\* Optional return values: None is the empty tuple, a value v is <<v>>
None == <<>>

Some(v) == <<v>>

\* ------------------------------------------------------------------------
\* Bounds (dataclass.py) and the quadtree (quadtree.py)
\* ------------------------------------------------------------------------

Bounds(x, y, width, height, rotation) ==
    [x |-> x, y |-> y, width |-> width, height |-> height, rotation |-> rotation]

\* citygen.quadtree.max_objects / max_levels, chosen small so that splits
\* happen with a handful of items
max_objects == 1

max_levels == 2

\* citygen.quadtree.bounds: the root rectangle
RootBounds == Bounds(0, 0, 16, 16, 0)

\* a fresh QuadTree node: objects = [], items = [], nodes = [None] * 4
NewNode == [objects |-> <<>>, items |-> <<>>, split |-> FALSE]

\* QuadTree(bounds, max_objects, max_levels): a tree is a function from the
\* path of a node (sequence of child indices 0..3 from the root) to the node
NewTree == <<>> :> NewNode

\* the four child rectangles split() hands to nodes[0..3]
ChildBounds(b, k) ==
    LET width == b.width \div 2
        height == b.height \div 2
    IN CASE k = 0 -> Bounds(b.x + width, b.y, width, height, 0)
         [] k = 1 -> Bounds(b.x, b.y, width, height, 0)
         [] k = 2 -> Bounds(b.x, b.y + height, width, height, 0)
         [] k = 3 -> Bounds(b.x + width, b.y + height, width, height, 0)

RECURSIVE NodeBounds(_)
\* self.bounds of the node at path p
NodeBounds(p) ==
    IF p = <<>> THEN RootBounds
    ELSE ChildBounds(NodeBounds(SubSeq(p, 1, Len(p) - 1)), p[Len(p)])

\* any(self.nodes): the node has been split
HasChildren(t, p) == t[p].split

\* get_relevant_nodes with the bottom test ignoring the height of rect
GetRelevantNodesNoHeight(p, rect) ==
    LET b == NodeBounds(p)
        mid_x == b.x + b.width \div 2
        mid_y == b.y + b.height \div 2
        top == rect.y <= mid_y
        bottom == rect.y > mid_y
        left == (IF rect.x <= mid_x
                 THEN (IF top THEN <<1>> ELSE <<>>) \o (IF bottom THEN <<2>> ELSE <<>>)
                 ELSE <<>>)
        right == (IF rect.x + rect.width > mid_x
                  THEN (IF top THEN <<0>> ELSE <<>>) \o (IF bottom THEN <<3>> ELSE <<>>)
                  ELSE <<>>)
    IN left \o right

\* get_relevant_nodes keeping only the children whose rectangle meets rect
GetRelevantNodesInside(p, rect) ==
    LET b == NodeBounds(p)
        meets(k) == LET c == ChildBounds(b, k)
                    IN /\ rect.x <= c.x + c.width /\ c.x <= rect.x + rect.width
                       /\ rect.y <= c.y + c.height /\ c.y <= rect.y + rect.height
    IN SelectSeq(<<1, 2, 0, 3>>, meets)

\* get_relevant_nodes: the child indices, in the order the code appends them
GetRelevantNodes(p, rect) ==
    LET b == NodeBounds(p)
        mid_x == b.x + b.width \div 2
        mid_y == b.y + b.height \div 2
        top == rect.y <= mid_y
        bottom == rect.y + rect.height > mid_y
        left == (IF rect.x <= mid_x
                 THEN (IF top THEN <<1>> ELSE <<>>) \o (IF bottom THEN <<2>> ELSE <<>>)
                 ELSE <<>>)
        right == (IF rect.x + rect.width > mid_x
                  THEN (IF top THEN <<0>> ELSE <<>>) \o (IF bottom THEN <<3>> ELSE <<>>)
                  ELSE <<>>)
    IN left \o right

RECURSIVE Insert(_, _, _, _)
RECURSIVE InsertInto(_, _, _, _, _)
RECURSIVE SplitLoop(_, _, _)

\* "for node in self.get_relevant_nodes(rect): node.insert(rect, item)"
InsertInto(t, p, ks, rect, item) ==
    IF ks = <<>> THEN t
    ELSE InsertInto(Insert(t, Append(p, Head(ks)), rect, item), p, Tail(ks), rect, item)

\* the redistribution loop of split(): objects i.. of node p go to the children
SplitLoop(t, p, i) ==
    IF i > Len(t[p].objects) THEN t
    ELSE SplitLoop(InsertInto(t, p, GetRelevantNodes(p, t[p].objects[i]),
                              t[p].objects[i], t[p].items[i]),
                   p, i + 1)

\* split(): four fresh children, then redistribution; the node keeps its own
\* objects and items lists
Split(t, p) ==
    LET kids == [q \in {Append(p, k) : k \in 0..3} |-> NewNode]
        t1 == [t EXCEPT ![p].split = TRUE] @@ kids
    IN SplitLoop(t1, p, 1)

\* insert(rect, item) that lets a node grow one item beyond max_objects
\* before it splits
InsertSplitsLate(t, p, rect, item) ==
    IF HasChildren(t, p)
    THEN InsertInto(t, p, GetRelevantNodes(p, rect), rect, item)
    ELSE LET t1 == [t EXCEPT ![p].objects = Append(@, rect),
                             ![p].items = Append(@, item)]
         IN IF Len(t1[p].objects) > max_objects + 1 /\ Len(p) < max_levels
            THEN Split(t1, p)
            ELSE t1

\* insert(rect, item) on the node at path p
Insert(t, p, rect, item) ==
    IF HasChildren(t, p)
    THEN InsertInto(t, p, GetRelevantNodes(p, rect), rect, item)
    ELSE LET t1 == [t EXCEPT ![p].objects = Append(@, rect),
                             ![p].items = Append(@, item)]
         IN IF Len(t1[p].objects) > max_objects /\ Len(p) < max_levels
            THEN Split(t1, p)
            ELSE t1

RECURSIVE Retrieve(_, _, _)
RECURSIVE RetrieveFrom(_, _, _, _)

RetrieveFrom(t, p, ks, rect) ==
    IF ks = <<>> THEN <<>>
    ELSE Retrieve(t, Append(p, Head(ks)), rect) \o RetrieveFrom(t, p, Tail(ks), rect)

\* retrieve(rect) on the node at path p: a list of items, with duplicates
Retrieve(t, p, rect) ==
    IF HasChildren(t, p)
    THEN RetrieveFrom(t, p, GetRelevantNodes(p, rect), rect)
    ELSE t[p].items

Range(s) == {s[i] : i \in 1..Len(s)}

\* self.items.index(item)
IndexOf(s, item) == CHOOSE i \in 1..Len(s) : s[i] = item /\ \A j \in 1..(i - 1) : s[j] # item

\* list.pop(index)
Pop(s, index) == SubSeq(s, 1, index - 1) \o SubSeq(s, index + 1, Len(s))

RECURSIVE Remove(_, _, _, _)
RECURSIVE RemoveAll(_, _, _, _, _)
RECURSIVE RemoveFirst(_, _, _, _, _)

\* "for node in relevant: node.remove(bounds, item)" (results ignored)
RemoveAll(t, p, ks, bounds, item) ==
    IF ks = <<>> THEN t
    ELSE RemoveAll(Remove(t, Append(p, Head(ks)), bounds, item).tree,
                   p, Tail(ks), bounds, item)

\* "for node in relevant: if node.remove(bounds, item): return True"
RemoveFirst(t, p, ks, bounds, item) ==
    IF ks = <<>> THEN [tree |-> t, ret |-> FALSE]
    ELSE LET r == Remove(t, Append(p, Head(ks)), bounds, item)
         IN IF r.ret THEN r
            ELSE RemoveFirst(r.tree, p, Tail(ks), bounds, item)

\* remove(bounds, item) on the node at path p: the new tree and the result
Remove(t, p, bounds, item) ==
    IF item \in Range(t[p].items)
    THEN LET index == IndexOf(t[p].items, item)
             t1 == [t EXCEPT ![p].items = Pop(@, index),
                             ![p].objects = Pop(@, index)]
         IN [tree |-> IF HasChildren(t1, p)
                      THEN RemoveAll(t1, p, GetRelevantNodes(p, bounds), bounds, item)
                      ELSE t1,
             ret |-> TRUE]
    ELSE IF HasChildren(t, p)
    THEN RemoveFirst(t, p, GetRelevantNodes(p, bounds), bounds, item)
    ELSE [tree |-> t, ret |-> FALSE]

\* ------------------------------------------------------------------------
\* Point, MetaInfo, Segment (dataclass.py) and the priority queue
\* (priority_queue.py)
\* ------------------------------------------------------------------------

Point(x, y) == [x |-> x, y |-> y]

MetaInfo(highway, t) == [highway |-> highway, t |-> t]

Segment(start, end, q) == [start |-> start, end |-> end, q |-> q]

\* float('inf'): larger than every t a proposal carries
Inf == 1000000

\* the comparison of dequeue with <= in place of <
TLessOrEqual(t, min_t) == t <= min_t

\* "segment.q.t < min_t"
TLess(t, min_t) == t < min_t

RECURSIVE ScanMin(_, _, _, _)
\* the loop of dequeue over enumerate(self.elements), from position i on;
\* positions are 1-based here, 0-based in the code
ScanMin(els, i, min_t, min_idx) ==
    IF i > Len(els) THEN min_idx
    ELSE IF TLess(els[i].q.t, min_t)
         THEN ScanMin(els, i + 1, els[i].q.t, i)
         ELSE ScanMin(els, i + 1, min_t, min_idx)

\* PriorityQueue.enqueue
Enqueue(els, segment) == Append(els, segment)

\* PriorityQueue.dequeue: the remaining elements and the returned segment
Dequeue(els) ==
    IF els = <<>> THEN [elements |-> els, ret |-> None]
    ELSE LET min_idx == ScanMin(els, 1, Inf, 1)
         IN [elements |-> Pop(els, min_idx), ret |-> Some(els[min_idx])]

\* ------------------------------------------------------------------------
\* Segment intersection (math_utils.py)
\* ------------------------------------------------------------------------

\* MathUtils.subtract_points
subtract_points(p1, p2) == Point(p1.x - p2.x, p1.y - p2.y)

\* MathUtils.cross_product
cross_product(a, b) == a.x * b.y - a.y * b.x

\* "buffer < n / k < 1 - buffer" for buffer = 0.001 and k # 0, in integers
InsideBuffer(n, k) ==
    IF k > 0 THEN k < 1000 * n /\ 1000 * n < 999 * k
    ELSE k > 1000 * n /\ 1000 * n > 999 * k

\* MathUtils.do_line_segments_intersect(a, b, p, d): None, or the crossing
\* point and the parameter e along a->b, all three as numerators over den
do_line_segments_intersect(a, b, p, d) ==
    LET b_rel == subtract_points(b, a)
        d_rel == subtract_points(d, p)
        f == cross_product(subtract_points(p, a), b_rel)
        k == cross_product(b_rel, d_rel)
        e == cross_product(subtract_points(p, a), d_rel)
    IN IF k = 0 THEN None
       ELSE IF InsideBuffer(e, k) /\ InsideBuffer(f, k)
       THEN Some([x |-> a.x * k + e * b_rel.x, y |-> a.y * k + e * b_rel.y,
                  e |-> e, den |-> k])
       ELSE None

\* ------------------------------------------------------------------------
\* Road manager (the canonical list of accepted segments)
\* ------------------------------------------------------------------------

\* RoadManager.add_segment: the segment joins the list at the end
add_segment(rs, segment) == Append(rs, segment)

\* RoadManager.get_segment_by_id: self.roads[id]; None stands for IndexError
get_segment_by_id(rs, id) ==
    IF id + 1 \in 1..Len(rs) THEN Some(rs[id + 1]) ELSE None

\* RoadManager.remove_segment: the first list entry equal to the segment goes
remove_segment(rs, segment) ==
    IF segment \in Range(rs) THEN Pop(rs, IndexOf(rs, segment)) ELSE rs

\* ------------------------------------------------------------------------
\* Buildings and elements (dataclass.py, building_manager.py,
\* element_manager.py)
\* ------------------------------------------------------------------------

BuildingType(name, width, height, is_required) ==
    [name |-> name, width |-> width, height |-> height, is_required |-> is_required]

\* Building(...) whose __post_init__ leaves the rotation argument in place
BuildingKeepsRotationArgument(building_type, bounds, rotation) ==
    [building_type |-> building_type, bounds |-> bounds, rotation |-> rotation,
     center |-> Point(bounds.x + bounds.width \div 2, bounds.y + bounds.height \div 2),
     width |-> bounds.width, height |-> bounds.height]

\* Building(building_type, bounds, rotation) after __post_init__
Building(building_type, bounds, rotation) ==
    [building_type |-> building_type, bounds |-> bounds,
     rotation |-> bounds.rotation,
     center |-> Point(bounds.x + bounds.width \div 2, bounds.y + bounds.height \div 2),
     width |-> bounds.width, height |-> bounds.height]

ElementType(name, width, height) == [name |-> name, width |-> width, height |-> height]

\* Element(element_type, bounds, rotation) after __post_init__; building = None
Element(element_type, bounds, rotation) ==
    [element_type |-> element_type, bounds |-> bounds, rotation |-> rotation,
     center |-> Point(bounds.x + bounds.width \div 2, bounds.y + bounds.height \div 2),
     building |-> None]

\* the oriented box of a Bounds, rotated by bounds.rotation about its centre,
\* in doubled coordinates; for the rotations 0 and 90 the box is axis-aligned
OrientedBox(b) ==
    IF b.rotation = 90
    THEN [x0 |-> 2 * b.x + b.width - b.height, x1 |-> 2 * b.x + b.width + b.height,
          y0 |-> 2 * b.y + b.height - b.width, y1 |-> 2 * b.y + b.height + b.width]
    ELSE [x0 |-> 2 * b.x, x1 |-> 2 * b.x + 2 * b.width,
          y0 |-> 2 * b.y, y1 |-> 2 * b.y + 2 * b.height]

\* BboxUtils.bbox_overlap: the oriented boxes of the two Bounds share interior
bbox_overlap(b1, b2) ==
    LET o1 == OrientedBox(b1)
        o2 == OrientedBox(b2)
    IN /\ o1.x0 < o2.x1 /\ o2.x0 < o1.x1
       /\ o1.y0 < o2.y1 /\ o2.y0 < o1.y1

\* config['citygen.building.building_building_distance']
building_building_distance == 1

\* config['citygen.element.element_element_distance']
element_element_distance == 1

\* check_bounds of can_place_building / can_place_element
CheckBounds(bounds, buffer) ==
    Bounds(bounds.x - buffer, bounds.y - buffer,
           bounds.width + 2 * buffer, bounds.height + 2 * buffer, bounds.rotation)

\* BuildingManager.can_place_building(bounds), default buffer
can_place_building(tree, bounds) ==
    LET check_bounds == CheckBounds(bounds, building_building_distance)
        candidates == Retrieve(tree, <<>>, check_bounds)
    IN \A i \in 1..Len(candidates) : ~bbox_overlap(candidates[i].bounds, check_bounds)

\* ElementManager.can_place_element(bounds), default buffer
can_place_element(tree, bounds) ==
    LET check_bounds == CheckBounds(bounds, element_element_distance)
        candidates == Retrieve(tree, <<>>, check_bounds)
    IN \A i \in 1..Len(candidates) : ~bbox_overlap(candidates[i].bounds, check_bounds)

\* ------------------------------------------------------------------------
\* The quadtree driven by insert / remove / clear calls
\* ------------------------------------------------------------------------

\* number of insert calls explored
MaxInserts == 3

\* rectangles handed to insert: one entirely outside the root, one over all
\* four root quadrants, one over all four quadrants of root child 1, two inside
\* single quadrants of child 1, one outside the root to its right
QTRects ==
    { Bounds(-3, -3, 2, 2, 0), Bounds(7, 7, 2, 2, 0), Bounds(3, 3, 2, 2, 0),
      Bounds(1, 1, 1, 1, 0), Bounds(5, 1, 2, 2, 0), Bounds(17, 5, 1, 1, 0) }

\* one-dimensional extents <<start, length>> of the query rectangles
Extents == {<<-3, 2>>, <<1, 1>>, <<3, 2>>, <<7, 2>>, <<9, 6>>, <<17, 1>>}

QTQueries ==
    QTRects \cup {Bounds(ex[1], ey[1], ex[2], ey[2], 0) : ex \in Extents, ey \in Extents}

\* closed axis-aligned overlap of the stored rectangles (x, y, width, height)
RectsOverlap(a, b) ==
    /\ a.x <= b.x + b.width /\ b.x <= a.x + a.width
    /\ a.y <= b.y + b.height /\ b.y <= a.y + a.height

\* rect lies entirely outside the root bounds
OutsideRoot(rect) ==
    \/ rect.x + rect.width < RootBounds.x
    \/ rect.x > RootBounds.x + RootBounds.width
    \/ rect.y + rect.height < RootBounds.y
    \/ rect.y > RootBounds.y + RootBounds.height

\* the state after construction: an empty quadtree, an empty priority queue,
\* managers without roads, buildings or elements, nothing running
Init ==
    /\ qt = NewTree
    /\ inserted = <<>>
    /\ removed = {}
    /\ elements = <<>>
    /\ pqRet = None
    /\ roads = <<>>
    /\ issued = <<>>
    /\ queue = <<>>
    /\ intersections = {}
    /\ num_segments = 0
    /\ pc = "idle"
    /\ buildings = <<>>
    /\ building_quadtree = NewTree
    /\ rotation_arg = 0
    /\ em_elements = <<>>
    /\ element_quadtree = NewTree
    /\ angle_ret = None
    /\ current_angles = <<>>
    /\ city_generator = None
    /\ files = <<>>
    /\ world_history = <<>>
    /\ export_raised = None
    /\ routes = <<>>
    /\ stats = None
    /\ label_call = None
    /\ nodes = {}
    /\ edges = {}
    /\ adjacency_list = <<>>
    /\ road_objects = <<>>
    /\ edge_distance = None
    /\ random_node = None
    /\ map_loads = 0
    /\ constructed = None
    /\ intersect_call = None
    /\ sampler_pc = "idle"
    /\ sampler_call = None
    /\ sampler_draw = None
    /\ sampler_ret = None
    /\ merge_call = None
    /\ retry_pc = "idle"
    /\ retry_call = None
    /\ attempt = 0
    /\ retry_log = <<>>
    /\ last_exception = None
    /\ retry_ret = None

\* qt.insert(rect, item) with a fresh item
QTInsert(rect) ==
    /\ Len(inserted) < MaxInserts
    /\ LET item == Len(inserted) + 1
       IN /\ qt' = Insert(qt, <<>>, rect, item)
          /\ inserted' = Append(inserted, [rect |-> rect, item |-> item])
    /\ UNCHANGED <<removed, qtOthers>>

\* qt.remove(bounds, item) for an item inserted earlier, with its own bounds
QTRemove(i) ==
    /\ i \in 1..Len(inserted)
    /\ LET r == Remove(qt, <<>>, inserted[i].rect, inserted[i].item)
       IN /\ qt' = r.tree
          /\ removed' = IF r.ret THEN removed \cup {inserted[i].item} ELSE removed
    /\ UNCHANGED <<inserted, qtOthers>>

\* qt.clear()
QTClear ==
    /\ inserted # <<>>
    /\ qt' = NewTree
    /\ inserted' = <<>>
    /\ removed' = {}
    /\ UNCHANGED qtOthers

QTNext ==
    \/ \E rect \in QTRects : QTInsert(rect)
    \/ \E i \in 1..MaxInserts : QTRemove(i)
    \/ QTClear

Spec == Init /\ [][QTNext]_vars

\* ------------------------------------------------------------------------
\* Claims about the quadtree
\* ------------------------------------------------------------------------

RetrievedItems(q) == Range(Retrieve(qt, <<>>, q))

\* C1: after any sequence of insert calls, for every query rectangle q,
\* retrieve(q) contains every inserted item whose stored rectangle overlaps q
QuadtreeSound ==
    removed = {} =>
        \A q \in QTQueries : \A i \in 1..Len(inserted) :
            RectsOverlap(inserted[i].rect, q) => inserted[i].item \in RetrievedItems(q)

\* C1 witness: a split has happened at depth 1 (nodes exist at level 2) and a
\* query different from an item's own rectangle finds that item
QuadtreeSoundWitness ==
    /\ removed = {}
    /\ \E p \in DOMAIN qt : Len(p) = 2
    /\ \E i \in 1..Len(inserted) : \E q \in QTQueries :
          /\ q # inserted[i].rect
          /\ RectsOverlap(inserted[i].rect, q)
          /\ inserted[i].item \in RetrievedItems(q)

\* C2: once remove has returned True for an item inserted exactly once, no
\* later retrieve(q), for any q, returns that item
RemoveIsComplete ==
    \A item \in removed : \A q \in QTQueries : item \notin RetrievedItems(q)

\* C3: an item inserted with bounds entirely outside the root bounds is still
\* stored: retrieve with its own bounds returns it after any further inserts
\* and splits
NoInsertLost ==
    removed = {} =>
        \A i \in 1..Len(inserted) :
            OutsideRoot(inserted[i].rect) =>
                inserted[i].item \in RetrievedItems(inserted[i].rect)

\* C3 witness: an out-of-root item was inserted before the root split and
\* further inserts followed it
NoInsertLostWitness ==
    /\ removed = {}
    /\ HasChildren(qt, <<>>)
    /\ Len(inserted) = MaxInserts
    /\ OutsideRoot(inserted[1].rect)
    /\ inserted[1].item \in RetrievedItems(inserted[1].rect)

\* C23: after any sequence of insert and remove calls, every node without
\* children whose level is below max_levels holds at most max_objects items,
\* and no node exists at a level greater than max_levels
QuadtreeCapacity ==
    \A p \in DOMAIN qt :
        /\ Len(p) <= max_levels
        /\ ~HasChildren(qt, p) /\ Len(p) < max_levels =>
               Len(qt[p].items) <= max_objects /\ Len(qt[p].objects) <= max_objects

\* C23 witness: inserts have split the tree down to level max_levels, where
\* a node holds more than max_objects items, and a remove has succeeded
QuadtreeCapacityWitness ==
    /\ removed # {}
    /\ \E p \in DOMAIN qt : Len(p) = max_levels /\ Len(qt[p].items) > max_objects
    /\ \E p \in DOMAIN qt :
           ~HasChildren(qt, p) /\ Len(p) < max_levels /\ Len(qt[p].items) = max_objects

\* ------------------------------------------------------------------------
\* The priority queue driven by enqueue / dequeue calls
\* ------------------------------------------------------------------------

\* longest queue explored
MaxQueue == 3

\* proposals handed to enqueue: three delays, two geometries per delay
PQSegments ==
    { Segment(Point(0, 0), Point(e, 0), MetaInfo(FALSE, t)) : e \in {1, 2}, t \in {0, 1, 2} }

PQEnqueue(segment) ==
    /\ Len(elements) < MaxQueue
    /\ elements' = Enqueue(elements, segment)
    /\ UNCHANGED <<pqRet, pqOthers>>

PQDequeue ==
    /\ elements' = Dequeue(elements).elements
    /\ pqRet' = Dequeue(elements).ret
    /\ UNCHANGED pqOthers

PQNext ==
    \/ \E segment \in PQSegments : PQEnqueue(segment)
    \/ PQDequeue

PQSpec == Init /\ [][PQNext]_vars

\* C4: every dequeue from a non-empty queue returns a segment whose t is
\* minimal among the queued segments, and among the segments with that t the
\* one enqueued first (the one nearest the front); the others stay queued in
\* their order
DequeueReturnsFirstMinimum ==
    [][ Len(elements') < Len(elements) =>
            \E i \in 1..Len(elements) :
                /\ \A j \in 1..Len(elements) : elements[i].q.t <= elements[j].q.t
                /\ \A j \in 1..(i - 1) : elements[j].q.t > elements[i].q.t
                /\ pqRet' = Some(elements[i])
                /\ elements' = Pop(elements, i) ]_vars

\* C4 witness: a dequeue has returned a segment while a segment with the same
\* t, enqueued later, is still queued behind a segment with a larger t
DequeueWitness ==
    /\ pqRet # None
    /\ Len(elements) = 2
    /\ elements[1].q.t > pqRet[1].q.t
    /\ elements[2].q.t = pqRet[1].q.t
    /\ elements[2] # pqRet[1]

\* ------------------------------------------------------------------------
\* The road edit API (city_function_call.py)
\* ------------------------------------------------------------------------

\* most roads held at once
MaxRoads == 3

\* [start, end] coordinate lists handed to add_road / modify_road: a
\* horizontal and a vertical road crossing at (2, 2), and two roads that touch
\* them at endpoints only
RoadInputs ==
    { <<<<0, 2>>, <<4, 2>>>>, <<<<2, 0>>, <<2, 4>>>>,
      <<<<4, 2>>, <<4, 4>>>>, <<<<0, 2>>, <<2, 4>>>> }

\* ids handed to remove_road / modify_road
RoadIds == 0..MaxRoads

\* the id -> road table of the caller without the entry for id
DropId(f, id) == [i \in DOMAIN f \ {id} |-> f[i]]

\* CityFunctionCall.add_road(start, end): returns len(roads) - 1
add_road(start, end) ==
    /\ pc = "idle"
    /\ Len(roads) < MaxRoads
    /\ LET StartPoint == Point(start[1], start[2])
           EndPoint == Point(end[1], end[2])
           segment == Segment(StartPoint, EndPoint, MetaInfo(FALSE, 0))
           rs == add_segment(roads, segment)
           id == Len(rs) - 1
       IN /\ roads' = rs
          /\ issued' = (id :> segment) @@ issued
    /\ UNCHANGED <<queue, intersections, num_segments, pc, roadOthers>>

\* CityFunctionCall.remove_road(id): True, or False on IndexError
remove_road(id) ==
    /\ pc = "idle"
    /\ LET segment == get_segment_by_id(roads, id)
       IN roads' = IF segment = None THEN roads ELSE remove_segment(roads, segment[1])
    /\ issued' = DropId(issued, id)
    /\ UNCHANGED <<queue, intersections, num_segments, pc, roadOthers>>

\* CityFunctionCall.modify_road(id, start, end): the segment object held by
\* the list gets new endpoints and keeps its metadata
modify_road(id, start, end) ==
    /\ pc = "idle"
    /\ LET segment == get_segment_by_id(roads, id)
           new == [segment[1] EXCEPT !.start = Point(start[1], start[2]),
                                     !.end = Point(end[1], end[2])]
       IN IF segment = None
          THEN UNCHANGED <<roads, issued>>
          ELSE /\ roads' = [roads EXCEPT ![id + 1] = new]
               /\ issued' = IF id \in DOMAIN issued THEN (id :> new) @@ issued ELSE issued
    /\ UNCHANGED <<queue, intersections, num_segments, pc, roadOthers>>

RoadNext ==
    \/ \E r \in RoadInputs : add_road(r[1], r[2])
    \/ \E id \in RoadIds : remove_road(id)
    \/ \E id \in RoadIds : \E r \in RoadInputs : modify_road(id, r[1], r[2])

RoadSpec == Init /\ [][RoadNext]_vars

\* two roads whose interiors cross
ProperlyCross(s1, s2) ==
    do_line_segments_intersect(s1.start, s1.end, s2.start, s2.end) # None

\* C5: after any sequence of add_road / modify_road calls no two segments in
\* the road set share a proper interior intersection
EditKeepsRoadsPlanar ==
    \A i, j \in 1..Len(roads) : i # j => ~ProperlyCross(roads[i], roads[j])

\* C6: the id returned by add_road keeps identifying that same road in every
\* later remove_road / modify_road call: get_segment_by_id(id) is the road the
\* id was returned for, as last modified through that id
RoadIdsStable ==
    \A id \in DOMAIN issued : get_segment_by_id(roads, id) = Some(issued[id])

\* ------------------------------------------------------------------------
\* Road generation driven by generate_road_network (city_function_call.py)
\* ------------------------------------------------------------------------

\* most proposals waiting in the queue when a generation run is started
MaxPending == 4

\* generate_initial_segments: two highway proposals with t = 0 leaving the
\* origin in opposite directions
InitialSegments ==
    << Segment(Point(2, 2), Point(4, 2), MetaInfo(TRUE, 0)),
       Segment(Point(2, 2), Point(0, 2), MetaInfo(TRUE, 0)) >>

\* global goals of an accepted segment: the straight continuation and the
\* left and right branches from its far endpoint, each with t = parent.t + 1
GlobalGoals(segment) ==
    LET dx == segment.end.x - segment.start.x
        dy == segment.end.y - segment.start.y
        e == segment.end
    IN << Segment(e, Point(e.x + dx, e.y + dy), MetaInfo(segment.q.highway, segment.q.t + 1)),
          Segment(e, Point(e.x - dy, e.y + dx), MetaInfo(FALSE, segment.q.t + 1)),
          Segment(e, Point(e.x + dy, e.y - dx), MetaInfo(FALSE, segment.q.t + 1)) >>

RECURSIVE EnqueueAll(_, _, _)
\* enqueue the goals whose positions are in picked, in order
EnqueueAll(els, goals, picked) ==
    IF goals = <<>> THEN els
    ELSE EnqueueAll(IF Len(goals) \in picked THEN Enqueue(els, Head(goals)) ELSE els,
                    Tail(goals), picked)

\* find_intersections: the endpoints shared by two or more roads, each with
\* the roads incident to it
find_intersections(rs) ==
    LET ends(r) == {r.start, r.end}
        shared == {p \in UNION {ends(rs[i]) : i \in 1..Len(rs)} :
                     \E i, j \in 1..Len(rs) : i # j /\ p \in ends(rs[i]) /\ p \in ends(rs[j])}
    IN {[point |-> p, segments |-> {rs[i] : i \in {k \in 1..Len(rs) : p \in ends(rs[k])}}] :
            p \in shared}

\* generate_road_network(n), first statement: generate_initial_segments()
generate_initial_segments(n) ==
    /\ pc = "idle"
    /\ Len(queue) + 2 <= MaxPending
    /\ queue' = Enqueue(Enqueue(queue, InitialSegments[1]), InitialSegments[2])
    /\ num_segments' = n
    /\ pc' = "while"
    /\ UNCHANGED <<roads, issued, intersections, roadOthers>>

\* "while len(roads) < num_segments": enter the body or leave the loop
while_test ==
    /\ pc = "while"
    /\ pc' = IF Len(roads) < num_segments THEN "generate_step" ELSE "find_intersections"
    /\ UNCHANGED <<roads, issued, queue, intersections, num_segments, roadOthers>>

\* the loop body, generate_step(): nothing to do on an empty queue; otherwise
\* the minimum-t proposal is popped and the local-constraints pass either
\* rejects it or accepts it, an accepted segment joining the roads and
\* spawning some of its global goals
generate_step ==
    /\ pc = "generate_step"
    /\ LET r == Dequeue(queue)
       IN IF r.ret = None
          THEN UNCHANGED <<roads, queue>>
          ELSE \/ /\ roads' = roads
                  /\ queue' = r.elements
               \/ \E picked \in SUBSET {1, 2, 3} :
                     /\ roads' = add_segment(roads, r.ret[1])
                     /\ queue' = EnqueueAll(r.elements, GlobalGoals(r.ret[1]), picked)
    /\ pc' = "while"
    /\ UNCHANGED <<issued, intersections, num_segments, roadOthers>>

\* the last statement: find_intersections(), then the call returns
finish ==
    /\ pc = "find_intersections"
    /\ intersections' = find_intersections(roads)
    /\ pc' = "idle"
    /\ UNCHANGED <<roads, issued, queue, num_segments, roadOthers>>

GenNext ==
    \/ \E n \in 1..MaxRoads : generate_initial_segments(n)
    \/ while_test
    \/ generate_step
    \/ finish

\* the call, once started, keeps running: single-threaded code always takes
\* its next step
GenSpec == Init /\ [][GenNext]_vars /\ WF_vars(GenNext)

\* C7: every generate_road_network call finishes, also when the proposal
\* queue runs empty before num_segments roads exist
RoadGenerationTerminates == (pc # "idle") ~> (pc = "idle")

\* ------------------------------------------------------------------------
\* The building manager
\* ------------------------------------------------------------------------

\* most buildings added
MaxBuildings == 2

\* bounds of the buildings added: a 6 x 2 box turned by 90 degrees, whose
\* oriented box (x 4..6, y 4..10) leaves its unrotated rectangle, a 4 x 2
\* box turned by 90 degrees, and two unrotated boxes
BuildingBounds ==
    { Bounds(2, 6, 6, 2, 90), Bounds(10, 10, 4, 2, 90),
      Bounds(10, 2, 2, 2, 0), Bounds(2, 12, 2, 2, 0) }

BuildingTypes == {BuildingType("House", 2, 2, TRUE), BuildingType("Shop", 6, 2, FALSE)}

\* candidate bounds handed to can_place_building
CandidateBounds == BuildingBounds \cup {Bounds(4, 10, 2, 2, 0), Bounds(12, 3, 2, 2, 0)}

\* BuildingManager.add_building(Building(building_type, bounds, rotation))
add_building(building_type, bounds, rotation) ==
    /\ Len(buildings) < MaxBuildings
    /\ LET building == Building(building_type, bounds, rotation)
       IN /\ buildings' = Append(buildings, building)
          /\ building_quadtree' = Insert(building_quadtree, <<>>, building.bounds, building)
    /\ rotation_arg' = rotation
    /\ UNCHANGED buildingOthers

BuildingNext ==
    \E building_type \in BuildingTypes, bounds \in BuildingBounds, rotation \in {0, 90} :
        add_building(building_type, bounds, rotation)

BuildingSpec == Init /\ [][BuildingNext]_vars

\* C8: can_place_building(bounds) returns False whenever some building
\* already added has an oriented box overlapping the candidate box inflated
\* by the buffer
RotatedBuildingsBlockPlacement ==
    \A bounds \in CandidateBounds :
        (\E i \in 1..Len(buildings) :
            bbox_overlap(buildings[i].bounds, CheckBounds(bounds, building_building_distance)))
        => ~can_place_building(building_quadtree, bounds)

\* C10: every constructed Building has rotation = bounds.rotation, center =
\* the centre of its bounds (twice the centre compared, to stay in integers),
\* width = bounds.width and height = bounds.height
BuildingFieldsFollowBounds ==
    \A i \in 1..Len(buildings) :
        LET b == buildings[i]
        IN /\ b.rotation = b.bounds.rotation
           /\ 2 * b.center.x = 2 * b.bounds.x + b.bounds.width
           /\ 2 * b.center.y = 2 * b.bounds.y + b.bounds.height
           /\ b.width = b.bounds.width
           /\ b.height = b.bounds.height

\* C10 witness: a Building was constructed with a rotation argument that
\* differs from the rotation of its bounds
BuildingFieldsWitness ==
    /\ buildings # <<>>
    /\ rotation_arg # buildings[Len(buildings)].bounds.rotation
    /\ buildings[Len(buildings)].rotation = 90

\* ------------------------------------------------------------------------
\* The element manager under guarded placement
\* ------------------------------------------------------------------------

\* most elements placed
MaxElements == 3

\* bounds of the proposed elements: a 6 x 2 box turned by 90 degrees, three
\* unrotated boxes of which two overlap, and one next to its oriented box
ElementBounds ==
    { Bounds(2, 6, 6, 2, 90), Bounds(10, 2, 2, 2, 0), Bounds(11, 3, 2, 2, 0),
      Bounds(4, 10, 2, 2, 0), Bounds(12, 12, 2, 2, 0) }

ElementTypes == {ElementType("lamp", 2, 2), ElementType("bench", 6, 2)}

\* ElementManager.add_element
add_element(element) ==
    /\ em_elements' = Append(em_elements, element)
    /\ element_quadtree' = Insert(element_quadtree, <<>>, element.bounds, element)

\* one turn of the loop of generate_element_alone_roads over a proposed
\* element: "if can_place_element(element.bounds): add_element(element)"
place_element(element) ==
    /\ Len(em_elements) < MaxElements
    /\ IF can_place_element(element_quadtree, element.bounds)
       THEN add_element(element)
       ELSE UNCHANGED <<em_elements, element_quadtree>>
    /\ UNCHANGED elementOthers

ElementNext ==
    \E element_type \in ElementTypes, bounds \in ElementBounds :
        place_element(Element(element_type, bounds, bounds.rotation))

ElementSpec == Init /\ [][ElementNext]_vars

\* C9: under guarded placement every pair of distinct elements has bounds
\* that do not overlap once one of them is inflated by
\* element_element_distance
ElementsKeepDistance ==
    \A i, j \in 1..Len(em_elements) :
        i # j => ~bbox_overlap(em_elements[i].bounds,
                               CheckBounds(em_elements[j].bounds, element_element_distance))

\* ------------------------------------------------------------------------
\* Segment orientation (dataclass.py) and the angles at an endpoint
\* (road_utils.py)
\* ------------------------------------------------------------------------

\* math.degrees(math.atan2(dy, dx)) on the eight compass directions, where
\* the result is exact; atan2(0, 0) is 0
atan2_degrees(dy, dx) ==
    CASE dy = 0 /\ dx >= 0 -> 0
      [] dy = 0 /\ dx < 0 -> 180
      [] dx = 0 /\ dy > 0 -> 90
      [] dx = 0 /\ dy < 0 -> -90
      [] dx > 0 /\ dy = dx -> 45
      [] dx < 0 /\ dy = -dx -> 135
      [] dx < 0 /\ dy = dx -> -135
      [] dx > 0 /\ dy = -dx -> -45

\* Segment.get_angle
get_angle(s) ==
    LET dx == s.end.x - s.start.x
        dy == s.end.y - s.start.y
    IN atan2_degrees(dy, dx)

\* "MathUtils.length(a, b) < merge_distance" for a positive merge_distance,
\* compared on the squares
LengthBelow(a, b, merge_distance) ==
    (b.x - a.x) * (b.x - a.x) + (b.y - a.y) * (b.y - a.y) < merge_distance * merge_distance

RECURSIVE AnglesOf(_, _, _)
\* one loop of get_current_angles over the list ss
AnglesOf(segment, ss, merge_distance) ==
    IF ss = <<>> THEN <<>>
    ELSE LET s == Head(ss)
             rest == AnglesOf(segment, Tail(ss), merge_distance)
         IN IF LengthBelow(s.start, segment.end, merge_distance)
            THEN <<get_angle(s)>> \o rest
            ELSE IF LengthBelow(s.end, segment.end, merge_distance)
            THEN <<(get_angle(s) + 180) % 360>> \o rest
            ELSE rest

\* RoadUtils.get_current_angles: the generated segments first, then the queue
get_current_angles(segment, segments, queue_elements, merge_distance) ==
    AnglesOf(segment, segments, merge_distance)
        \o AnglesOf(segment, queue_elements, merge_distance)

\* segments around the endpoint (2, 2): two leaving it (towards negative y,
\* towards north-east), three arriving at it (heading to negative x, to
\* negative y, to north-east), and one far from it
AngleSegments ==
    { Segment(Point(2, 2), Point(2, 1), MetaInfo(FALSE, 0)),
      Segment(Point(2, 2), Point(3, 3), MetaInfo(FALSE, 0)),
      Segment(Point(3, 2), Point(2, 2), MetaInfo(FALSE, 0)),
      Segment(Point(2, 3), Point(2, 2), MetaInfo(FALSE, 0)),
      Segment(Point(1, 1), Point(2, 2), MetaInfo(FALSE, 0)),
      Segment(Point(5, 5), Point(6, 5), MetaInfo(TRUE, 0)) }

\* the segment whose endpoint is examined: one ending at (2, 2), one at (2, 1)
AngleProbes ==
    { Segment(Point(0, 2), Point(2, 2), MetaInfo(FALSE, 0)),
      Segment(Point(2, 0), Point(2, 1), MetaInfo(FALSE, 0)) }

\* the lists of generated segments and of queued segments handed over
AngleSegmentLists == UNION {[1..n -> AngleSegments] : n \in 0..2}

AngleQueueLists == UNION {[1..n -> AngleSegments] : n \in 0..1}

\* citygen.road.merge_distance values tried
MergeDistances == {1, 2}

\* segment.get_angle()
call_get_angle(s) ==
    /\ angle_ret' = Some(get_angle(s))
    /\ UNCHANGED <<current_angles, angleOthers>>

\* RoadUtils.get_current_angles(segment, segments, queue_elements, merge_distance)
call_get_current_angles(segment, segments, queue_elements, merge_distance) ==
    /\ current_angles' = get_current_angles(segment, segments, queue_elements, merge_distance)
    /\ UNCHANGED <<angle_ret, angleOthers>>

AngleNext ==
    \/ \E s \in AngleSegments : call_get_angle(s)
    \/ \E segment \in AngleProbes : \E segments \in AngleSegmentLists :
       \E queue_elements \in AngleQueueLists : \E merge_distance \in MergeDistances :
           call_get_current_angles(segment, segments, queue_elements, merge_distance)

AngleSpec == Init /\ [][AngleNext]_vars

\* C11: every orientation returned by get_angle, and every angle collected by
\* get_current_angles, lies in [0, 360)
AnglesInRange ==
    /\ angle_ret # None => (0 <= angle_ret[1] /\ angle_ret[1] < 360)
    /\ \A i \in 1..Len(current_angles) : 0 <= current_angles[i] /\ current_angles[i] < 360

\* ------------------------------------------------------------------------
\* Exporter (data_exporter.py) and the building reader (asset_rp_utils.py)
\* ------------------------------------------------------------------------

\* a JSON object {'x': ..., 'y': ...}
XY(p) == [x |-> p.x, y |-> p.y]

\* the 'bounds' object written for a building, an element or an owner
BoundsJson(b) ==
    [x |-> b.x, y |-> b.y, width |-> b.width, height |-> b.height, rotation |-> b.rotation]

\* the 'segment_assignment' object
SegmentAssignment(segment) ==
    [start |-> XY(segment.start), end |-> XY(segment.end), angle |-> get_angle(segment)]

\* dict.get(key): None when the key is absent
Get(d, key) == IF key \in DOMAIN d THEN Some(d[key]) ELSE None

\* isinstance(owner, Building) / isinstance(owner, Segment)
IsBuilding(o) == "building_type" \in DOMAIN o

IsSegment(o) == "start" \in DOMAIN o

\* DataExporter.export_road_data
export_road_data(city) ==
    [roads |-> [i \in 1..Len(city.road_manager.roads) |->
        LET segment == city.road_manager.roads[i]
        IN [start |-> XY(segment.start), end |-> XY(segment.end),
            is_highway |-> segment.q.highway]]]

\* DataExporter.export_building_data
export_building_data(city) ==
    [buildings |-> [i \in 1..Len(city.building_manager.buildings) |->
        LET building == city.building_manager.buildings[i]
            building_data == [center |-> XY(building.center),
                              rotation |-> building.rotation,
                              type |-> building.building_type.name,
                              bounds |-> BoundsJson(building.bounds)]
            segment == Get(city.building_generator.building_to_segment, building)
        IN IF segment # None
           THEN ("segment_assignment" :> SegmentAssignment(segment[1])) @@ building_data
           ELSE building_data]]

\* DataExporter.export_element_data
export_element_data(city) ==
    [elements |-> [i \in 1..Len(city.element_manager.elements) |->
        LET element == city.element_manager.elements[i]
            element_data == [center |-> XY(element.center),
                             rotation |-> element.rotation,
                             type |-> element.element_type.name,
                             bounds |-> BoundsJson(element.bounds)]
            owner == Get(city.element_generator.element_to_owner, element)
        IN IF owner # None /\ IsBuilding(owner[1])
           THEN ("building_assignment" :>
                    [building_type |-> owner[1].building_type.name,
                     center |-> XY(owner[1].center),
                     bounds |-> BoundsJson(owner[1].bounds)]) @@ element_data
           ELSE IF owner # None /\ IsSegment(owner[1])
           THEN ("segment_assignment" :> SegmentAssignment(owner[1])) @@ element_data
           ELSE element_data]]

\* DataExporter.export_routes_data
export_routes_data(city) ==
    [routes |-> [i \in 1..Len(city.route_manager.routes) |->
        LET route == city.route_manager.routes[i]
        IN [start |-> XY(route.start), end |-> XY(route.end),
            points |-> [k \in 1..Len(route.points) |-> XY(route.points[k])]]]]

\* DataExporter._calculate_rotation
calculate_rotation(start, end) ==
    LET degrees == atan2_degrees(end.y - start.y, end.x - start.x)
    IN IF degrees < 0 THEN degrees + 360 ELSE degrees

\* DataExporter._calculate_center; the sums halved are even
calculate_center(start, end) ==
    [x |-> (start.x + end.x) \div 2, y |-> (start.y + end.y) \div 2]

\* math.sqrt(dx ** 2 + dy ** 2) of an axis-parallel road
AxisLength(dx, dy) ==
    CASE dy = 0 -> (IF dx < 0 THEN -dx ELSE dx)
      [] dx = 0 -> (IF dy < 0 THEN -dy ELSE dy)

\* element['type'][:-1] on the element type names in use
DropLastChar(name) ==
    CASE name = "tree1" -> "tree"
      [] name = "cone2" -> "cone"

\* the progen_world.json node of a road; scales are in ten-thousandths
\* (the lengths exported are even, so 0.95 * length * 100 / 20000 is exact)
RoadNode(road, n) ==
    LET start == road.start
        end == road.end
        center == calculate_center(start, end)
        rotation == calculate_rotation(start, end)
        length == AxisLength(end.x - start.x, end.y - start.y)
    IN [id |-> "GEN_Road_" \o ToString(n),
        instance_name |-> "BP_Road1_C",
        properties |->
          [location |-> [x |-> center.x * 100, y |-> center.y * 100, z |-> 0],
           orientation |-> [pitch |-> 0, yaw |-> rotation, roll |-> 0],
           scale |-> [x |-> (95 * length) \div 2, y |-> 9000, z |-> 10000]]]

\* the node of a building that carries a segment assignment
BuildingNode(building, n) ==
    [id |-> "GEN_" \o building.type \o "_" \o ToString(n),
     instance_name |-> building.type,
     properties |->
       [location |-> [x |-> building.center.x * 100, y |-> building.center.y * 100, z |-> 0],
        orientation |-> [pitch |-> 0, yaw |-> building.rotation, roll |-> 0],
        scale |-> [x |-> 10000, y |-> 10000, z |-> 10000]],
     segment_assignment |-> building.segment_assignment]

\* the node of an element; num is the value random.randint(1, 4) returned
ElementNode(element, num, n) ==
    LET obj == [id |-> "GEN_" \o DropLastChar(element.type) \o ToString(num)
                          \o "_" \o ToString(n),
                instance_name |-> element.type,
                properties |->
                  [location |-> [x |-> element.center.x * 100,
                                 y |-> element.center.y * 100, z |-> 30],
                   orientation |-> [pitch |-> 0, yaw |-> element.rotation, roll |-> 0],
                   scale |-> [x |-> 10000, y |-> 10000, z |-> 10000]]]
        with_building == IF "building_assignment" \in DOMAIN element
                         THEN ("building_assignment" :> element.building_assignment) @@ obj
                         ELSE obj
    IN IF "segment_assignment" \in DOMAIN element
       THEN ("segment_assignment" :> element.segment_assignment) @@ with_building
       ELSE with_building

\* DataExporter.convert_layout_to_world: the document written to
\* progen_world.json, or None when building['segment_assignment'] raises
\* KeyError; nums[k] is what random.randint(1, 4) returns for element k
convert_layout_to_world(buildings_data, roads_data, elements_data, nums) ==
    LET R == Len(roads_data.roads)
        B == Len(buildings_data.buildings)
        E == Len(elements_data.elements)
    IN IF \E j \in 1..B : "segment_assignment" \notin DOMAIN buildings_data.buildings[j]
       THEN None
       ELSE Some(
         [base_map |-> [name |-> "map_1",
                        env_bin |-> "gym_citynav\\Binaries\\Win64\\gym_citynav.exe",
                        width |-> 1000, height |-> 1000],
          nodes |-> [i \in 1..R |-> RoadNode(roads_data.roads[i], i - 1)]
                 \o [j \in 1..B |-> BuildingNode(buildings_data.buildings[j], R + j - 1)]
                 \o [k \in 1..E |->
                        ElementNode(elements_data.elements[k], nums[k], R + B + k - 1)]])

\* Route(points, start, end)
Route(points, start, end) == [points |-> points, start |-> start, end |-> end]

\* a Python str standing where an object is expected
Str(s) == [str |-> s]

\* construct_building_from_candidate(candidate), reading buildings_data from
\* buildings.json, from entry i on: the first entry of the candidate's type
\* whose centre is within 1.0 of the candidate location, rebuilt as
\* Building(building_type=candidate_type, bounds=bounds); None if there is none
RECURSIVE construct_building_from_candidate(_, _, _)
construct_building_from_candidate(buildings_data, candidate, i) ==
    IF i > Len(buildings_data.buildings) THEN None
    ELSE LET b == buildings_data.buildings[i]
             candidate_type == candidate.instance_name
             dx == 100 * b.center.x - candidate.properties.location.x
             dy == 100 * b.center.y - candidate.properties.location.y
         IN IF b.type = candidate_type /\ dx * dx + dy * dy <= 100 * 100
            THEN Some(Building(Str(candidate_type),
                               Bounds(b.bounds.x, b.bounds.y, b.bounds.width,
                                      b.bounds.height, b.bounds.rotation), 0))
            ELSE construct_building_from_candidate(buildings_data, candidate, i + 1)

\* most export_to_json runs over one city
MaxExports == 2

ExportRoadA == Segment(Point(0, 2), Point(4, 2), MetaInfo(TRUE, 0))

ExportRoadB == Segment(Point(4, 2), Point(4, 6), MetaInfo(FALSE, 1))

ExportHouse == Building(BuildingType("House", 2, 2, TRUE), Bounds(0, 4, 2, 2, 0), 0)

ExportTree == Element(ElementType("tree1", 2, 2), Bounds(2, 4, 2, 2, 0), 0)

ExportCone == Element(ElementType("cone2", 2, 2), Bounds(2, 0, 2, 2, 0), 0)

\* a generated city as the exporter reads it
City(rs, bs, building_to_segment, es, element_to_owner, rts) ==
    [road_manager |-> [roads |-> rs],
     building_manager |-> [buildings |-> bs],
     building_generator |-> [building_to_segment |-> building_to_segment],
     element_manager |-> [elements |-> es],
     element_generator |-> [element_to_owner |-> element_to_owner],
     route_manager |-> [routes |-> rts]]

\* the cities exported: empty; one road; two roads, the second accepted at
\* t = 1; a road with a building assigned to it; a building without a
\* segment; one element without owner; roads, a building, an element next to
\* the building, an element along a road and a route
Cities ==
    { City(<<>>, <<>>, <<>>, <<>>, <<>>, <<>>),
      City(<<ExportRoadA>>, <<>>, <<>>, <<>>, <<>>, <<>>),
      City(<<ExportRoadA, ExportRoadB>>, <<>>, <<>>, <<>>, <<>>, <<>>),
      City(<<ExportRoadA>>, <<ExportHouse>>, ExportHouse :> ExportRoadA, <<>>, <<>>, <<>>),
      City(<<ExportRoadA>>, <<ExportHouse>>, <<>>, <<>>, <<>>, <<>>),
      City(<<>>, <<>>, <<>>, <<ExportTree>>, <<>>, <<>>),
      City(<<ExportRoadA, ExportRoadB>>, <<ExportHouse>>, ExportHouse :> ExportRoadA,
           <<ExportTree, ExportCone>>,
           (ExportTree :> ExportHouse) @@ (ExportCone :> ExportRoadA),
           <<Route(<<Point(3, 5), Point(3, 5)>>, Point(3, 5), Point(3, 5))>>) }

\* DataExporter(city_generator)
DataExporter(city) ==
    /\ city_generator' = Some(city)
    /\ world_history' = <<>>
    /\ UNCHANGED <<files, export_raised, exportOthers>>

\* DataExporter.export_to_json(output_dir) into an empty directory: the three
\* layout files, then progen_world.json, then routes.json; a KeyError in
\* convert_layout_to_world ends the call before the last two are written
export_to_json ==
    /\ city_generator # None
    /\ Len(world_history) < MaxExports
    /\ LET city == city_generator[1]
           road_data == export_road_data(city)
           building_data == export_building_data(city)
           element_data == export_element_data(city)
           layout == ("roads.json" :> road_data) @@ ("buildings.json" :> building_data)
                        @@ ("elements.json" :> element_data)
       IN \E nums \in [1..Len(element_data.elements) -> 1..4] :
            LET world == convert_layout_to_world(building_data, road_data, element_data, nums)
            IN IF world = None
               THEN /\ files' = layout
                    /\ export_raised' = Some("KeyError")
                    /\ UNCHANGED world_history
               ELSE /\ files' = ("progen_world.json" :> world[1])
                                   @@ ("routes.json" :> export_routes_data(city)) @@ layout
                    /\ export_raised' = None
                    /\ world_history' = Append(world_history, world[1])
    /\ UNCHANGED <<city_generator, exportOthers>>

ExportNext ==
    \/ \E city \in Cities : DataExporter(city)
    \/ export_to_json

ExportSpec == Init /\ [][ExportNext]_vars

\* C12: all export_to_json runs over the same city write the same
\* progen_world.json, node ids included
ExportDeterministic ==
    \A i, j \in 1..Len(world_history) : world_history[i] = world_history[j]

\* a reader of roads.json: each entry rebuilt as Segment(start, end,
\* MetaInfo(is_highway)), t taking its default
ReadRoads(doc) ==
    [i \in 1..Len(doc.roads) |->
        LET road == doc.roads[i]
        IN Segment(Point(road.start.x, road.start.y), Point(road.end.x, road.end.y),
                   MetaInfo(road.is_highway, 0))]

\* a reader of buildings.json: each entry rebuilt by
\* construct_building_from_candidate from its own type and location
ReadBuildings(doc) ==
    [i \in 1..Len(doc.buildings) |->
        LET b == doc.buildings[i]
            candidate == [instance_name |-> b.type,
                          properties |-> [location |-> [x |-> b.center.x * 100,
                                                        y |-> b.center.y * 100]]]
        IN construct_building_from_candidate(doc, candidate, 1)[1]]

\* a reader of elements.json: each entry rebuilt the same way as a building
ReadElements(doc) ==
    [i \in 1..Len(doc.elements) |->
        LET e == doc.elements[i]
        IN Element(Str(e.type),
                   Bounds(e.bounds.x, e.bounds.y, e.bounds.width, e.bounds.height,
                          e.bounds.rotation), e.rotation)]

\* C13: read back in order, roads.json, buildings.json and elements.json give
\* lists equal to road_manager.roads, building_manager.buildings (building
\* types included) and element_manager.elements
ExportRoundTrip ==
    "roads.json" \in DOMAIN files =>
        /\ ReadRoads(files["roads.json"]) = city_generator[1].road_manager.roads
        /\ ReadBuildings(files["buildings.json"]) = city_generator[1].building_manager.buildings
        /\ ReadElements(files["elements.json"]) = city_generator[1].element_manager.elements

\* C27: export_to_json completes and writes roads.json, buildings.json,
\* elements.json, progen_world.json and routes.json for every city, also for
\* a city with a building that has no entry in building_to_segment
ExportWritesAllFiles ==
    files # <<>> =>
        /\ export_raised = None
        /\ DOMAIN files = {"roads.json", "buildings.json", "elements.json",
                           "progen_world.json", "routes.json"}

\* ------------------------------------------------------------------------
\* Route sampler (route_generator.py, route_manager.py)
\* ------------------------------------------------------------------------

\* RouteManager.add_route_points
add_route_points(rts, points) ==
    LET start == points[1]
        end == points[Len(points)]
    IN Append(rts, Route(points, start, end))

\* MathUtils.interpolate_point(start, end, t) for t = tn / 2; the coordinate
\* differences interpolated are even
interpolate_point(start, end, tn) ==
    Point(start.x + ((end.x - start.x) * tn) \div 2,
          start.y + ((end.y - start.y) * tn) \div 2)

\* most routes recorded
MaxRoutes == 2

\* citygen.route.min_points_per_route / max_points_per_route
min_points_per_route == 1

max_points_per_route == 2

\* the values of random.random() tried, as numerators over 2
RandomHalves == {0, 1}

\* roads handed to generate_route_along_road
RouteRoads ==
    { Segment(Point(0, 2), Point(4, 2), MetaInfo(TRUE, 0)),
      Segment(Point(4, 2), Point(4, 6), MetaInfo(FALSE, 1)) }

\* element lists handed to generate_route_based_on_elements
RouteElements ==
    { Element(ElementType("tree1", 2, 2), Bounds(2, 4, 2, 2, 0), 0),
      Element(ElementType("cone2", 2, 2), Bounds(2, 0, 2, 2, 0), 0),
      Element(ElementType("tree1", 2, 2), Bounds(10, 10, 4, 2, 0), 0) }

RouteElementLists == UNION {[1..n -> RouteElements] : n \in 1..2}

\* RouteGenerator.generate_route_along_road(road): num_points random points
\* of the road
generate_route_along_road(road) ==
    /\ Len(routes) < MaxRoutes
    /\ \E num_points \in min_points_per_route..max_points_per_route :
       \E ts \in [1..num_points -> RandomHalves] :
           routes' = add_route_points(routes,
                        [i \in 1..num_points |-> interpolate_point(road.start, road.end, ts[i])])
    /\ UNCHANGED <<stats, label_call, routeOthers>>

\* RouteGenerator.generate_route_based_on_elements(elements), elements not
\* empty: random.sample picks any one of them
generate_route_based_on_elements(els) ==
    /\ Len(routes) < MaxRoutes
    /\ LET num_points == 2
       IN \E element \in Range(els) :
            routes' = add_route_points(routes, [i \in 1..num_points |-> element.center])
    /\ UNCHANGED <<stats, label_call, routeOthers>>

\* isinstance(neighbor, Element)
IsElement(o) == "element_type" \in DOMAIN o

\* list[:k]
Take(s, k) == SubSeq(s, 1, IF k < Len(s) THEN k ELSE Len(s))

\* MathUtils.get_direction_description_for_points(point_a, point_b):
\* direction[int((angle_deg + 22.5) // 45) % 8]; the sector limits at odd
\* multiples of 22.5 degrees are compared on squares, tan(22.5) = sqrt(2) - 1
get_direction_description_for_points(point_a, point_b) ==
    LET dx == point_b.x - point_a.x
        dy == point_b.y - point_a.y
        ax == IF dx < 0 THEN -dx ELSE dx
        ay == IF dy < 0 THEN -dy ELSE dy
        near_x == (ax + ay) * (ax + ay) < 2 * ax * ax \/ (ax = 0 /\ ay = 0)
        near_y == (ax + ay) * (ax + ay) < 2 * ay * ay
    IN IF near_x THEN (IF dx >= 0 THEN "East" ELSE "West")
       ELSE IF near_y THEN (IF dy >= 0 THEN "North" ELSE "South")
       ELSE IF dy >= 0 THEN (IF dx >= 0 THEN "NorthEast" ELSE "NorthWest")
       ELSE (IF dx >= 0 THEN "SouthEast" ELSE "SouthWest")

RECURSIVE RetrieveEach(_, _)
\* "for quadtree in quadtrees: neighbors += quadtree.retrieve(bounds)"
RetrieveEach(quadtrees, bounds) ==
    IF quadtrees = <<>> THEN <<>>
    ELSE Retrieve(Head(quadtrees), <<>>, bounds) \o RetrieveEach(Tail(quadtrees), bounds)

\* the query window of get_point_around_label
LabelWindow(point, distance) ==
    Bounds(point.x - distance, point.y - distance, 2 * distance, 2 * distance, 0)

\* the local list "elements" of get_point_around_label
LabelElements(point, quadtrees, distance, k) ==
    Take(SelectSeq(RetrieveEach(quadtrees, LabelWindow(point, distance)), IsElement), k)

\* the local list "buildings" of get_point_around_label
LabelBuildings(point, quadtrees, distance, k) ==
    Take(SelectSeq(RetrieveEach(quadtrees, LabelWindow(point, distance)), IsBuilding), k)

\* the index of the last entry of bs with the building type name n
LastNamed(bs, n) ==
    CHOOSE i \in 1..Len(bs) :
        bs[i].building_type.name = n /\ \A j \in (i + 1)..Len(bs) : bs[j].building_type.name # n

\* RouteGenerator.get_point_around_label: the stats dictionary
get_point_around_label(point, quadtrees, distance, k) ==
    LET els == LabelElements(point, quadtrees, distance, k)
        bs == LabelBuildings(point, quadtrees, distance, k)
        element_types == [i \in 1..Len(els) |-> els[i].element_type]
        count(element_type) == Cardinality({i \in 1..Len(els) : element_types[i] = element_type})
    IN [element_stats |->
            [n \in {element_types[i].name : i \in 1..Len(els)} |->
                count(element_types[CHOOSE i \in 1..Len(els) :
                        element_types[i].name = n
                        /\ \A j \in (i + 1)..Len(els) : element_types[j].name # n])],
        building_stats |->
            [n \in {bs[i].building_type.name : i \in 1..Len(bs)} |->
                get_direction_description_for_points(point, bs[LastNamed(bs, n)].center)]]

RECURSIVE TreeOf(_, _)
\* the quadtree a manager holds after adding the items of the list in order,
\* each with insert(item.bounds, item)
TreeOf(t, items) ==
    IF items = <<>> THEN t
    ELSE TreeOf(Insert(t, <<>>, Head(items).bounds, Head(items)), Tail(items))

\* buildings around: one in the upper right quadrant, one in the lower left
LabelHouse == Building(BuildingType("House", 2, 2, TRUE), Bounds(12, 12, 2, 2, 0), 0)

LabelShop == Building(BuildingType("Shop", 6, 2, FALSE), Bounds(2, 2, 2, 2, 0), 0)

\* elements around: one across the centre of the root (in all four
\* quadrants once the root is split) and two inside single quadrants
LabelTree == Element(ElementType("tree1", 2, 2), Bounds(7, 7, 2, 2, 0), 0)

LabelCone == Element(ElementType("cone2", 2, 2), Bounds(2, 12, 2, 2, 0), 0)

LabelLamp == Element(ElementType("tree1", 2, 2), Bounds(12, 2, 2, 2, 0), 0)

\* [building_quadtree, element_quadtree] pairs handed over
LabelQuadtrees ==
    { <<TreeOf(NewTree, bs), TreeOf(NewTree, es)>> :
        bs \in {<<>>, <<LabelHouse>>, <<LabelHouse, LabelShop>>},
        es \in {<<>>, <<LabelTree>>, <<LabelTree, LabelCone>>, <<LabelCone, LabelLamp, LabelTree>>} }

LabelPoints == {Point(8, 8), Point(3, 3), Point(13, 3), Point(3, 11)}

\* route_generator.get_point_around_label(point, quadtrees, distance, k)
call_get_point_around_label(point, quadtrees, distance, k) ==
    /\ stats' = Some(get_point_around_label(point, quadtrees, distance, k))
    /\ label_call' = Some([point |-> point, quadtrees |-> quadtrees,
                           distance |-> distance, k |-> k])
    /\ UNCHANGED <<routes, routeOthers>>

RouteNext ==
    \/ \E road \in RouteRoads : generate_route_along_road(road)
    \/ \E els \in RouteElementLists : generate_route_based_on_elements(els)

RouteSpec == Init /\ [][RouteNext]_vars

LabelNext ==
    \E point \in LabelPoints, quadtrees \in LabelQuadtrees,
       distance \in {1, 2}, k \in {1, 5} :
        call_get_point_around_label(point, quadtrees, distance, k)

LabelSpec == Init /\ [][LabelNext]_vars

\* C14: generate_route_based_on_elements on a non-empty list appends exactly
\* one Route, which consists of a single point, the centre of one of the
\* given elements
RouteIsOneCentre ==
    [][ \A els \in RouteElementLists :
            generate_route_based_on_elements(els) =>
                /\ Len(routes') = Len(routes) + 1
                /\ SubSeq(routes', 1, Len(routes)) = routes
                /\ Len(routes'[Len(routes')].points) = 1
                /\ \E i \in 1..Len(els) : routes'[Len(routes')].points[1] = els[i].center ]_vars

\* C15: the buildings named in building_stats and the elements counted in
\* element_stats all have bounds overlapping the square window around the
\* point, and no element is counted twice
LabelStaysInWindow ==
    label_call # None =>
        LET c == label_call[1]
            window == LabelWindow(c.point, c.distance)
            els == LabelElements(c.point, c.quadtrees, c.distance, c.k)
            bs == LabelBuildings(c.point, c.quadtrees, c.distance, c.k)
        IN /\ stats = Some(get_point_around_label(c.point, c.quadtrees, c.distance, c.k))
           /\ \A i \in 1..Len(bs) : RectsOverlap(bs[i].bounds, window)
           /\ \A i \in 1..Len(els) : RectsOverlap(els[i].bounds, window)
           /\ \A i, j \in 1..Len(els) : i # j => els[i] # els[j]

\* ------------------------------------------------------------------------
\* Navigation graph (map.py, vector.py)
\* ------------------------------------------------------------------------

\* Vector(x, y); the coordinates are integers, which round(., 4) keeps
Vector(x, y) == [x |-> x, y |-> y]

\* Vector.normalize for axis-parallel vectors and the zero vector
normalize(v) ==
    CASE v.x = 0 /\ v.y = 0 -> Vector(0, 0)
      [] v.y = 0 /\ v.x > 0 -> Vector(1, 0)
      [] v.y = 0 /\ v.x < 0 -> Vector(-1, 0)
      [] v.x = 0 /\ v.y > 0 -> Vector(0, 1)
      [] v.x = 0 /\ v.y < 0 -> Vector(0, -1)

\* Vector.__add__, __sub__, __mul__
VAdd(a, b) == Vector(a.x + b.x, a.y + b.y)

VSub(a, b) == Vector(a.x - b.x, a.y - b.y)

VMul(a, k) == Vector(a.x * k, a.y * k)

\* the comparison of connect_adjacent_roads with <= in place of <
DistanceAtMost(a, b, d) ==
    (a.x - b.x) * (a.x - b.x) + (a.y - b.y) * (a.y - b.y) <= d * d

\* "a.distance(b) < d" for d >= 0, compared on the squares
DistanceBelow(a, b, d) ==
    (a.x - b.x) * (a.x - b.x) + (a.y - b.y) * (a.y - b.y) < d * d

\* Road(start, end): direction is the normalised end - start
Road(start, end) == [start |-> start, end |-> end, direction |-> normalize(VSub(end, start))]

\* Node(position, type)
Node(position, type) == [position |-> position, type |-> type]

\* Node.__eq__ (and __hash__): by position
NodeEq(a, b) == a.position = b.position

\* Edge(node1, node2)
Edge(node1, node2) == [node1 |-> node1, node2 |-> node2]

\* Edge.__eq__ (and __hash__): the same two positions, in either order
EdgeEq(e, f) ==
    \/ e.node1.position = f.node1.position /\ e.node2.position = f.node2.position
    \/ e.node1.position = f.node2.position /\ e.node2.position = f.node1.position

\* Map(config): no nodes, no edges, empty adjacency
NewMap == [nodes |-> {}, edges |-> {}, adjacency_list |-> <<>>]

\* adjacency_list[node] of the defaultdict: looked up by Node equality, a
\* missing key reads as the empty list
Neighbours(adj, node) ==
    IF \E key \in DOMAIN adj : NodeEq(key, node)
    THEN adj[CHOOSE key \in DOMAIN adj : NodeEq(key, node)]
    ELSE <<>>

\* adjacency_list[node].append(nbr)
AppendNeighbour(adj, node, nbr) ==
    IF \E key \in DOMAIN adj : NodeEq(key, node)
    THEN LET k == CHOOSE key \in DOMAIN adj : NodeEq(key, node)
         IN [adj EXCEPT ![k] = Append(@, nbr)]
    ELSE (node :> <<nbr>>) @@ adj

\* Map.add_node: set.add keeps the equal member already there
add_node(m, node) ==
    IF \E n \in m.nodes : NodeEq(n, node) THEN m
    ELSE [m EXCEPT !.nodes = @ \cup {node}]

\* Map.has_edge
has_edge(m, edge) == \E e \in m.edges : EdgeEq(e, edge)

\* Map.add_edge without the two adjacency_list appends
add_edge_set_only(m, edge) ==
    [m EXCEPT !.edges = IF has_edge(m, edge) THEN @ ELSE @ \cup {edge}]

\* Map.add_edge
add_edge(m, edge) ==
    [m EXCEPT !.edges = IF has_edge(m, edge) THEN @ ELSE @ \cup {edge},
              !.adjacency_list = AppendNeighbour(AppendNeighbour(@, edge.node1, edge.node2),
                                                 edge.node2, edge.node1)]

\* config['traffic.sidewalk_offset']
sidewalk_offset == 100

\* the four corner points p1..p4 of the sidewalk ring of a road
RingPoints(road) ==
    LET normal == Vector(road.direction.y, -road.direction.x)
        offset == sidewalk_offset
    IN << VAdd(VSub(road.start, VMul(normal, offset)), VMul(road.direction, offset)),
          VSub(VSub(road.end, VMul(normal, offset)), VMul(road.direction, offset)),
          VSub(VAdd(road.end, VMul(normal, offset)), VMul(road.direction, offset)),
          VAdd(VAdd(road.start, VMul(normal, offset)), VMul(road.direction, offset)) >>

\* the body of the loop of initializa_map over road_objects for one road:
\* four intersection nodes and the four ring edges
AddRing(m, road) ==
    LET p == RingPoints(road)
        ns == [i \in 1..4 |-> Node(p[i], "intersection")]
        m1 == add_node(add_node(add_node(add_node(m, ns[1]), ns[2]), ns[3]), ns[4])
    IN add_edge(add_edge(add_edge(add_edge(m1, Edge(ns[1], ns[2])),
                                  Edge(ns[3], ns[4])),
                         Edge(ns[1], ns[4])),
                Edge(ns[2], ns[3]))

RECURSIVE AddRings(_, _)
AddRings(m, rds) ==
    IF rds = <<>> THEN m ELSE AddRings(AddRing(m, Head(rds)), Tail(rds))

\* the test of connect_adjacent_roads on two node positions
Adjacent(p, q, threshold) == DistanceBelow(p, q, threshold)

RECURSIVE ConnectRow(_, _, _, _)
\* the inner loop of connect_adjacent_roads for nodes[i], from j on;
\* positions are 1-based here, and len(nodes) is the number of nodes of the
\* map, which the loop leaves as it is
ConnectRow(m, ns, i, j) ==
    LET threshold == sidewalk_offset * 2 + 100
    IN IF j > Cardinality(m.nodes) THEN m
       ELSE LET n1 == ns[i]
                n2 == ns[j]
            IN IF Adjacent(n1.position, n2.position, threshold) /\ ~has_edge(m, Edge(n1, n2))
               THEN ConnectRow(add_edge(m, Edge(n1, n2)), ns, i, j + 1)
               ELSE ConnectRow(m, ns, i, j + 1)

RECURSIVE ConnectFrom(_, _, _)
\* the outer loop of connect_adjacent_roads, from i on
ConnectFrom(m, ns, i) ==
    IF i > Cardinality(m.nodes) THEN m
    ELSE ConnectFrom(ConnectRow(m, ns, i, i + 1), ns, i + 1)

\* connect_adjacent_roads that joins no pair
connect_no_roads(m, ns) == m

\* Map.connect_adjacent_roads with list(self.nodes) = ns
connect_adjacent_roads(m, ns) == ConnectFrom(m, ns, 1)

\* p comes before q in the order by x, then y
Before(p, q) == p.x < q.x \/ (p.x = q.x /\ p.y < q.y)

RECURSIVE Ascending(_)
\* the members of a set of nodes as a list, by position
Ascending(S) ==
    IF S = {} THEN <<>>
    ELSE LET first == CHOOSE n \in S : \A o \in S \ {n} : Before(n.position, o.position)
         IN <<first>> \o Ascending(S \ {first})

Reverse(s) == [i \in 1..Len(s) |-> s[Len(s) + 1 - i]]

\* list(self.nodes): the iteration order of a set is not fixed by its
\* contents; two orders are tried
ListsOf(S) == {Ascending(S), Reverse(Ascending(S))}

\* deque.pop() in its place: the item comes off the right end
PopRight(q) == [item |-> q[Len(q)], rest |-> SubSeq(q, 1, Len(q) - 1)]

\* deque.popleft(): the item taken and the remaining queue
PopLeft(q) == [item |-> Head(q), rest |-> Tail(q)]

RECURSIVE VisitNeighbours(_, _, _, _)
\* "for nbr in self.adjacency_list[node]: if nbr not in seen: ..."
VisitNeighbours(nbrs, q, seen, dist) ==
    IF nbrs = <<>> THEN [queue |-> q, seen |-> seen]
    ELSE LET nbr == Head(nbrs)
         IN IF \E s \in seen : NodeEq(s, nbr)
            THEN VisitNeighbours(Tail(nbrs), q, seen, dist)
            ELSE VisitNeighbours(Tail(nbrs), Append(q, <<nbr, dist + 1>>),
                                 seen \cup {nbr}, dist)

RECURSIVE BFSLoop(_, _, _, _)
\* the while loop of get_edge_distance_between_two_points; None stands for
\* leaving the loop, after which ValueError is raised
BFSLoop(adj, q, seen, point2) ==
    IF q = <<>> THEN None
    ELSE LET popped == PopLeft(q)
             node == popped.item[1]
             dist == popped.item[2]
         IN IF NodeEq(node, point2) THEN Some(dist)
            ELSE LET r == VisitNeighbours(Neighbours(adj, node), popped.rest, seen, dist)
                 IN BFSLoop(adj, r.queue, r.seen, point2)

\* Map.get_edge_distance_between_two_points: Some(distance), or None for
\* ValueError
get_edge_distance_between_two_points(adj, point1, point2) ==
    IF NodeEq(point1, point2) THEN Some(0)
    ELSE BFSLoop(adj, <<<<point1, 0>>>>, {point1}, point2)

\* the candidates of get_random_node with no exclusions
RandomNodeCandidates(ns) == {n \in ns : n.type = "normal"}

\* most initializa_map calls on one Map
MaxLoads == 1

\* roads of roads.json, [start, end] in its units: along x from the origin;
\* up from the far end of the first; parallel to the first, their nearest
\* corners exactly 2 * sidewalk_offset + 100 apart; far from all others;
\* without length; towards the far end of the first from the other side;
\* longer than the threshold; continuing the second
RoadA == <<Point(0, 0), Point(4, 0)>>

RoadB == <<Point(4, 0), Point(4, 4)>>

RoadC == <<Point(0, 5), Point(4, 5)>>

RoadD == <<Point(20, 20), Point(24, 20)>>

RoadZ == <<Point(2, 2), Point(2, 2)>>

RoadF == <<Point(8, 0), Point(4, 0)>>

RoadG == <<Point(0, 0), Point(10, 0)>>

RoadH == <<Point(4, 4), Point(8, 4)>>

MapRoads == {RoadA, RoadB, RoadC, RoadD, RoadZ, RoadF, RoadG, RoadH}

\* the road lists read from roads.json when the graph itself is examined:
\* every road alone, every list of two of five of them, the long road with
\* one far away and with one beside it, and a chain of three
MapRoadFiles ==
    [1..1 -> MapRoads] \cup [1..2 -> {RoadA, RoadB, RoadC, RoadF, RoadZ}]
        \cup {<<RoadG, RoadD>>, <<RoadG, RoadC>>, <<RoadA, RoadB, RoadH>>}

\* the road lists read when distances are asked for
DistanceRoadFiles ==
    { <<RoadA>>, <<RoadZ>>, <<RoadA, RoadB>>, <<RoadA, RoadC>>, <<RoadA, RoadF>>,
      <<RoadG, RoadD>>, <<RoadA, RoadB, RoadH>> }

\* nodes handed to get_edge_distance_between_two_points as point2: corners
\* of the rings of the roads above (one with another type than the map
\* gives it), and a node that is on no map
QueryNodes ==
    { Node(Vector(100, 100), "intersection"), Node(Vector(300, -100), "intersection"),
      Node(Vector(700, 500), "normal"), Node(Vector(2300, 2100), "intersection"),
      Node(Vector(5000, 5000), "normal") }

\* nodes handed over as point1
QuerySources ==
    { Node(Vector(100, 100), "intersection"), Node(Vector(2300, 2100), "intersection"),
      Node(Vector(5000, 5000), "normal") }

\* the Map object
TheMap == [nodes |-> nodes, edges |-> edges, adjacency_list |-> adjacency_list]

\* Map(config)
Map ==
    /\ nodes' = NewMap.nodes
    /\ edges' = NewMap.edges
    /\ adjacency_list' = NewMap.adjacency_list
    /\ road_objects' = <<>>
    /\ edge_distance' = None
    /\ random_node' = None
    /\ map_loads' = 0
    /\ UNCHANGED mapOthers

\* Map.initializa_map() with road_items read from the roads file
initializa_map(road_items) ==
    /\ map_loads < MaxLoads
    /\ map_loads' = map_loads + 1
    /\ LET new_roads == [i \in 1..Len(road_items) |->
                            Road(Vector(road_items[i][1].x * 100, road_items[i][1].y * 100),
                                 Vector(road_items[i][2].x * 100, road_items[i][2].y * 100))]
           m1 == AddRings(TheMap, new_roads)
       IN /\ \E ns \in ListsOf(m1.nodes) :
               LET m2 == connect_adjacent_roads(m1, ns)
               IN /\ nodes' = m2.nodes
                  /\ edges' = m2.edges
                  /\ adjacency_list' = m2.adjacency_list
          /\ road_objects' = road_objects \o new_roads
    /\ edge_distance' = None
    /\ random_node' = None
    /\ UNCHANGED mapOthers

\* map.get_edge_distance_between_two_points(point1, point2); reading
\* adjacency_list[point1] gives a node without entry an empty one
call_get_edge_distance(point1, point2) ==
    /\ map_loads > 0
    /\ LET ret == get_edge_distance_between_two_points(adjacency_list, point1, point2)
       IN edge_distance' = Some([point1 |-> point1, point2 |-> point2, ret |-> ret,
                                 raised |-> IF ret = None THEN "ValueError" ELSE "none"])
    /\ adjacency_list' =
          IF NodeEq(point1, point2) \/ \E key \in DOMAIN adjacency_list : NodeEq(key, point1)
          THEN adjacency_list
          ELSE (point1 :> <<>>) @@ adjacency_list
    /\ UNCHANGED <<nodes, edges, road_objects, random_node, map_loads, mapOthers>>

\* map.get_random_node(): random.choice(candidates), IndexError on an empty
\* list
get_random_node ==
    /\ map_loads > 0
    /\ LET candidates == RandomNodeCandidates(nodes)
       IN IF candidates = {}
          THEN random_node' = Some([ret |-> None, raised |-> "IndexError"])
          ELSE \E n \in candidates : random_node' = Some([ret |-> Some(n), raised |-> "none"])
    /\ UNCHANGED <<nodes, edges, adjacency_list, road_objects, edge_distance, map_loads, mapOthers>>

MapNext ==
    \/ Map
    \/ \E road_items \in MapRoadFiles : initializa_map(road_items)
    \/ get_random_node

MapSpec == Init /\ [][MapNext]_vars

DistanceNext ==
    \/ Map
    \/ \E road_items \in DistanceRoadFiles : initializa_map(road_items)
    \/ \E point1 \in QuerySources, point2 \in QueryNodes : call_get_edge_distance(point1, point2)

DistanceSpec == Init /\ [][DistanceNext]_vars

\* the two positions an edge joins
EdgeKey(e) == {e.node1.position, e.node2.position}

\* the four ring edges of a road, as pairs of positions
RingKeys(road) ==
    LET p == RingPoints(road)
    IN {{p[1], p[2]}, {p[3], p[4]}, {p[1], p[4]}, {p[2], p[3]}}

\* the square of the Euclidean distance of two positions
SquaredDistance(p, q) == (p.x - q.x) * (p.x - q.x) + (p.y - q.y) * (p.y - q.y)

\* the pairs of distinct nodes less than 2 * sidewalk_offset + 100 apart
NearKeys(ns) ==
    LET threshold == 2 * sidewalk_offset + 100
    IN {{n.position, o.position} : <<n, o>> \in
            {pr \in ns \X ns : /\ pr[1].position # pr[2].position
                               /\ SquaredDistance(pr[1].position, pr[2].position)
                                      < threshold * threshold}}

\* C16: after initializa_map the edges are exactly the four ring edges of
\* every road and one edge for every pair of distinct nodes less than
\* 2 * sidewalk_offset + 100 apart; nodes at or beyond that distance are
\* joined only by ring edges
EdgesAreRingsAndNearPairs ==
    map_loads > 0 =>
        /\ {EdgeKey(e) : e \in edges} =
               UNION {RingKeys(road_objects[i]) : i \in 1..Len(road_objects)}
                   \cup NearKeys(nodes)
        /\ \A e, f \in edges : EdgeEq(e, f) => e = f
        /\ \A e \in edges : e.node1 \in nodes /\ e.node2 \in nodes

\* a loaded map with two nodes exactly 2 * sidewalk_offset + 100 apart and
\* not joined, a ring edge longer than that, and an edge that is no ring edge
EdgesWitness ==
    LET threshold == 2 * sidewalk_offset + 100
        rings == UNION {RingKeys(road_objects[i]) : i \in 1..Len(road_objects)}
    IN /\ map_loads > 0
       /\ \E n, o \in nodes :
              /\ SquaredDistance(n.position, o.position) = threshold * threshold
              /\ ~\E e \in edges : EdgeKey(e) = {n.position, o.position}
       /\ \E e \in edges : EdgeKey(e) \notin rings
       /\ \E e \in edges :
              /\ EdgeKey(e) \in rings
              /\ SquaredDistance(e.node1.position, e.node2.position) > threshold * threshold

RECURSIVE ReachSet(_, _)
\* the positions that paths along adjacency_list lead to from the positions S
ReachSet(adj, S) ==
    LET step == S \cup UNION {{nbr.position : nbr \in Range(Neighbours(adj, Node(p, "intersection")))}
                               : p \in S}
    IN IF step = S THEN S ELSE ReachSet(adj, step)

\* node n can be reached from a node at another position
ReachableFromOther(n) ==
    \E o \in nodes : /\ o.position # n.position
                     /\ n.position \in ReachSet(adjacency_list, {o.position})

RECURSIVE RoadComponent(_, _)
\* the roads (by index) linked to those of I by chains of shared endpoints
RoadComponent(rds, I) ==
    LET step == I \cup {j \in 1..Len(rds) :
                           \E i \in I : {rds[i].start, rds[i].end}
                                            \cap {rds[j].start, rds[j].end} # {}}
    IN IF step = I THEN I ELSE RoadComponent(rds, step)

\* node n is a corner of the ring of road
DerivedFrom(n, road) == n.position \in Range(RingPoints(road))

\* C17 as stated: a node of the graph built by initializa_map is reachable
\* from at least one other node if and only if the road component it was
\* derived from has at least 2 segments
ReachableIffComponent ==
    map_loads > 0 =>
        \A n \in nodes : \A i \in 1..Len(road_objects) :
            DerivedFrom(n, road_objects[i]) =>
                (ReachableFromOther(n)
                    <=> Cardinality(RoadComponent(road_objects, {i})) >= 2)

\* C17 amended: every node derived from a road with distinct endpoints is
\* reachable from at least one other node, whether the road component has
\* one segment or more
RingNodesReachable ==
    map_loads > 0 =>
        \A n \in nodes : \A i \in 1..Len(road_objects) :
            DerivedFrom(n, road_objects[i]) /\ road_objects[i].start # road_objects[i].end
                => ReachableFromOther(n)

\* a map built from a single road with distinct endpoints, a component of
\* one segment, whose corners are reachable from one another
RingNodesWitness ==
    /\ map_loads > 0
    /\ Len(road_objects) = 1
    /\ road_objects[1].start # road_objects[1].end
    /\ Cardinality(RoadComponent(road_objects, {1})) = 1
    /\ Cardinality(nodes) = 4
    /\ \A n \in nodes : ReachableFromOther(n)

\* every road of rds is linked to every other by a chain of roads sharing
\* endpoints
RoadsChained(rds) == rds # <<>> /\ RoadComponent(rds, {1}) = 1..Len(rds)

\* every node of the map can be reached from every other
GraphConnected ==
    \A n \in nodes : {o.position : o \in nodes} \subseteq ReachSet(adjacency_list, {n.position})

\* C18 (I6): when any two of the roads are linked by a chain of roads sharing
\* endpoints, every corner node of every road is reachable from every corner
\* node of every other road in the graph built by initializa_map
ChainedRoadsConnected ==
    map_loads > 0 /\ RoadsChained(road_objects) => GraphConnected

\* a map built from three chained roads, and one built from two roads that
\* meet end to end and share no corner: both graphs are connected
ChainedRoadsWitness ==
    /\ map_loads > 0
    /\ RoadsChained(road_objects)
    /\ GraphConnected
    /\ \/ Len(road_objects) = 3 /\ Cardinality(nodes) > 8
       \/ /\ Len(road_objects) = 2
          /\ Range(RingPoints(road_objects[1])) \cap Range(RingPoints(road_objects[2])) = {}

\* the positions joined to position p by an edge of the set E
EdgeNeighbours(E, p) ==
    {e.node2.position : e \in {f \in E : f.node1.position = p}}
        \cup {e.node1.position : e \in {f \in E : f.node2.position = p}}

RECURSIVE EdgeLevels(_, _, _, _, _)
\* the number of edges of a shortest path from the positions of frontier,
\* which are d edges from the start, to position b; None without a path
EdgeLevels(E, frontier, seen, b, d) ==
    IF b \in frontier THEN Some(d)
    ELSE LET next == UNION {EdgeNeighbours(E, p) : p \in frontier} \ seen
         IN IF next = {} THEN None
            ELSE EdgeLevels(E, next, seen \cup next, b, d + 1)

\* the minimum number of edges on a path between nodes a and b
MinEdges(E, a, b) == EdgeLevels(E, {a.position}, {a.position}, b.position, 0)

RandomNodeSucceeds ==
    random_node # None /\ road_objects # <<>> =>
        /\ random_node[1].raised = "none"
        /\ random_node[1].ret # None
        /\ random_node[1].ret[1] \in nodes

\* ------------------------------------------------------------------------
\* Construction of the quadtree and of the managers from the configuration
\* (quadtree.py, building_manager.py, element_manager.py)
\* ------------------------------------------------------------------------

\* QuadTree.__init__(bounds, max_objects, max_levels, level): the arguments
\* are stored as given
QuadTree(bounds, max_objects_arg, max_levels_arg, level) ==
    [bounds |-> bounds, max_objects |-> max_objects_arg, max_levels |-> max_levels_arg,
     level |-> level, objects |-> <<>>, items |-> <<>>,
     nodes |-> <<None, None, None, None>>]

\* the quadtree both managers build from config['citygen.quadtree. ...']
ConfiguredQuadTree(config) ==
    QuadTree(Bounds(config["citygen.quadtree.bounds.x"], config["citygen.quadtree.bounds.y"],
                    config["citygen.quadtree.bounds.width"],
                    config["citygen.quadtree.bounds.height"], 0),
             config["citygen.quadtree.max_objects"],
             config["citygen.quadtree.max_levels"], 0)

\* BuildingManager.__init__(config)
BuildingManager(config) ==
    [config |-> config, building_quadtree |-> ConfiguredQuadTree(config), buildings |-> <<>>]

\* ElementManager.__init__(config)
ElementManager(config) ==
    [config |-> config, elements |-> <<>>, element_quadtree |-> ConfiguredQuadTree(config)]

\* configurations: widths and heights below, at and above zero, max_objects
\* below, at and above zero (10 is the default of QuadTree)
ConfigExtents == {-16, 0, 16}

ConfigMaxObjects == {-1, 0, 1, 10}

ConfigMaxLevels == {0, 4}

Configs ==
    { [k \in {"citygen.quadtree.bounds.x", "citygen.quadtree.bounds.y",
              "citygen.quadtree.bounds.width", "citygen.quadtree.bounds.height",
              "citygen.quadtree.max_objects", "citygen.quadtree.max_levels"} |->
          CASE k = "citygen.quadtree.bounds.width" -> w
            [] k = "citygen.quadtree.bounds.height" -> h
            [] k = "citygen.quadtree.max_objects" -> mo
            [] k = "citygen.quadtree.max_levels" -> ml
            [] OTHER -> 0]
      : w \in ConfigExtents, h \in ConfigExtents, mo \in ConfigMaxObjects, ml \in ConfigMaxLevels }

\* QuadTree(bounds, max_objects, max_levels) called directly
NewQuadTree(config) ==
    /\ constructed' = Some([kind |-> "QuadTree", config |-> config,
                            ret |-> Some(ConfiguredQuadTree(config)), raised |-> "none"])
    /\ UNCHANGED configOthers

\* BuildingManager(config)
NewBuildingManager(config) ==
    /\ constructed' = Some([kind |-> "BuildingManager", config |-> config,
                            ret |-> Some(BuildingManager(config)), raised |-> "none"])
    /\ UNCHANGED configOthers

\* ElementManager(config)
NewElementManager(config) ==
    /\ constructed' = Some([kind |-> "ElementManager", config |-> config,
                            ret |-> Some(ElementManager(config)), raised |-> "none"])
    /\ UNCHANGED configOthers

ConfigNext ==
    \/ \E config \in Configs : NewQuadTree(config)
    \/ \E config \in Configs : NewBuildingManager(config)
    \/ \E config \in Configs : NewElementManager(config)

ConfigSpec == Init /\ [][ConfigNext]_vars

\* C21: constructing a QuadTree, directly or through BuildingManager or
\* ElementManager, with max_objects <= 0 or a bounds width or height <= 0
\* raises an error at construction
ConfigErrorsFailFast ==
    constructed # None =>
        LET c == constructed[1]
        IN (\/ c.config["citygen.quadtree.max_objects"] <= 0
            \/ c.config["citygen.quadtree.bounds.width"] <= 0
            \/ c.config["citygen.quadtree.bounds.height"] <= 0)
               => c.raised # "none" /\ c.ret = None

\* ------------------------------------------------------------------------
\* MathUtils.do_line_segments_intersect called on its own (math_utils.py)
\* ------------------------------------------------------------------------

\* end points of the segments handed over: a short and a long segment along
\* x from the origin, and points above, below and on them, one unit from the
\* origin
IntersectPoints ==
    { Point(0, 0), Point(2, 0), Point(2000, 0), Point(1, -1), Point(1, 1), Point(1, 0) }

\* MathUtils.do_line_segments_intersect(a, b, p, d), default buffer
call_do_line_segments_intersect(a, b, p, d) ==
    /\ intersect_call' = Some([a |-> a, b |-> b, p |-> p, d |-> d,
                               ret |-> do_line_segments_intersect(a, b, p, d)])
    /\ UNCHANGED intersectOthers

IntersectNext ==
    \E a \in IntersectPoints, b \in IntersectPoints, p \in IntersectPoints, d \in IntersectPoints :
        call_do_line_segments_intersect(a, b, p, d)

IntersectSpec == Init /\ [][IntersectNext]_vars

\* twice the signed area of the triangle a, b, c
Orientation(a, b, c) == (b.x - a.x) * (c.y - a.y) - (b.y - a.y) * (c.x - a.x)

\* the directions of a->b and p->d are parallel (or one segment has no length)
SegmentsParallel(a, b, p, d) == (b.x - a.x) * (d.y - p.y) - (b.y - a.y) * (d.x - p.x) = 0

\* the interiors of a-b and p-d cross: each segment has its end points
\* strictly on different sides of the other
InteriorsCross(a, b, p, d) ==
    /\ Orientation(a, b, p) * Orientation(a, b, d) < 0
    /\ Orientation(p, d, a) * Orientation(p, d, b) < 0

\* the segments are not parallel and meet only in an end point of one of
\* them: a shared vertex or a T-junction
OnlyTouch(a, b, p, d) ==
    /\ ~SegmentsParallel(a, b, p, d)
    /\ Orientation(a, b, p) * Orientation(a, b, d) <= 0
    /\ Orientation(p, d, a) * Orientation(p, d, b) <= 0
    /\ ~InteriorsCross(a, b, p, d)

\* C22: do_line_segments_intersect(a, b, p, d) is None when the segments only
\* touch at an end point or are parallel, is the crossing point with its
\* parameter e along a->b, 0 < e < 1, when the interiors properly cross, and
\* is None for (a, b, p, d) exactly when it is None for (p, d, a, b)
IntersectReportsProperCrossings ==
    intersect_call # None =>
        LET c == intersect_call[1]
            r == c.ret
        IN /\ SegmentsParallel(c.a, c.b, c.p, c.d) \/ OnlyTouch(c.a, c.b, c.p, c.d)
                  => r = None
           /\ InteriorsCross(c.a, c.b, c.p, c.d) =>
                  /\ r # None
                  /\ 0 < r[1].e * r[1].den /\ r[1].e * r[1].e < r[1].e * r[1].den
                  /\ Orientation(c.a, c.b, Point(r[1].x, r[1].y))
                         = Orientation(c.a, c.b, Point(c.a.x * r[1].den, c.a.y * r[1].den))
                  /\ Orientation(c.p, c.d, Point(r[1].x, r[1].y))
                         = Orientation(c.p, c.d, Point(c.p.x * r[1].den, c.p.y * r[1].den))
           /\ (r = None) <=> (do_line_segments_intersect(c.p, c.d, c.a, c.b) = None)

\* ------------------------------------------------------------------------
\* A Map filled through add_node / add_edge, and its random-node samplers
\* (map.py)
\* ------------------------------------------------------------------------

\* most add_edge calls on one Map, those of connect_adjacent_roads included
MaxEdgeCalls == 3

\* nodes handed to add_node and to the samplers: three of the default type
\* 'normal' along x, 200 and 1000 apart, and an intersection between them
NodeO == Node(Vector(0, 0), "normal")

NodeP == Node(Vector(200, 0), "normal")

NodeI == Node(Vector(400, 0), "intersection")

NodeQ == Node(Vector(1000, 0), "normal")

NodePool == {NodeO, NodeP, NodeI, NodeQ}

\* "x in xs" for a list of nodes
InList(xs, x) == \E i \in 1..Len(xs) : NodeEq(xs[i], x)

\* [n for n in ns if n not in exclude_pos], applied only to a non-empty
\* exclude_pos
WithoutExcluded(ns, exclude_pos) ==
    IF exclude_pos = <<>> THEN ns
    ELSE SelectSeq(ns, LAMBDA n : ~InList(exclude_pos, n))

\* "min_distance <= a.distance(b) <= max_distance" for bounds >= 0, compared
\* on the squares
DistanceWithin(a, b, min_distance, max_distance) ==
    LET sq == (a.x - b.x) * (a.x - b.x) + (a.y - b.y) * (a.y - b.y)
    IN min_distance * min_distance <= sq /\ sq <= max_distance * max_distance

\* the number of add_edge calls made on the map so far
RECURSIVE EdgeCalls(_, _)
EdgeCalls(adj, keys) ==
    IF keys = {} THEN 0
    ELSE LET k == CHOOSE key \in keys : TRUE
         IN Len(adj[k]) + EdgeCalls(adj, keys \ {k})

\* map.add_node(node)
call_add_node(node) ==
    /\ sampler_pc = "idle"
    /\ nodes' = add_node(TheMap, node).nodes
    /\ UNCHANGED <<edges, adjacency_list, road_objects, edge_distance, random_node, map_loads,
                   mapOthers>>

\* map.add_edge(edge)
call_add_edge(edge) ==
    /\ sampler_pc = "idle"
    /\ EdgeCalls(adjacency_list, DOMAIN adjacency_list) < 2 * MaxEdgeCalls
    /\ LET m == add_edge(TheMap, edge)
       IN /\ edges' = m.edges
          /\ adjacency_list' = m.adjacency_list
    /\ UNCHANGED <<nodes, road_objects, edge_distance, random_node, map_loads, mapOthers>>

\* map.connect_adjacent_roads()
call_connect_adjacent_roads ==
    /\ sampler_pc = "idle"
    /\ \E ns \in ListsOf(nodes) :
           LET m == connect_adjacent_roads(TheMap, ns)
           IN /\ edges' = m.edges
              /\ adjacency_list' = m.adjacency_list
    /\ UNCHANGED <<nodes, road_objects, edge_distance, random_node, map_loads, mapOthers>>

\* arguments of get_random_node_with_distance: base_pos and exclude_pos of
\* at most one node (and one base_pos of two), bounds wide enough for every
\* pair, a window around 200, and one that no two pool nodes meet
BaseLists == {<<>>, <<NodeO, NodeQ>>} \cup {<<n>> : n \in NodePool}

ExcludeLists == {<<>>, <<NodeO>>, <<NodeP>>}

DistanceBounds == {<<0, 10000>>, <<150, 250>>, <<1, 100>>}

\* the call of get_random_node_with_distance up to its loop: the candidates
\* are fixed; list(self.nodes) is taken in order of position
start_get_random_node_with_distance(base_pos, exclude_pos, min_distance, max_distance) ==
    /\ sampler_pc = "idle"
    /\ LET not_intersections ==
               SelectSeq(Ascending(nodes), LAMBDA n : n.type # "intersection")
       IN sampler_call' = Some([base_pos |-> base_pos, exclude_pos |-> exclude_pos,
                                min_distance |-> min_distance, max_distance |-> max_distance,
                                candidates |-> WithoutExcluded(not_intersections, exclude_pos)])
    /\ sampler_pc' = "while"
    /\ sampler_draw' = None
    /\ sampler_ret' = None
    /\ UNCHANGED samplerOthers

\* one turn of "while True": random.choice(candidates) and
\* random.choice(base_pos) raise IndexError on an empty list; the node is
\* returned when its distance to the base is within the bounds
sampling_turn ==
    /\ sampler_pc = "while"
    /\ LET c == sampler_call[1]
       IN IF c.candidates = <<>> \/ c.base_pos = <<>>
          THEN /\ sampler_ret' = Some([ret |-> None, raised |-> "IndexError"])
               /\ sampler_pc' = "idle"
               /\ sampler_draw' = sampler_draw
          ELSE \E i \in 1..Len(c.candidates), j \in 1..Len(c.base_pos) :
                  LET node == c.candidates[i]
                      base == c.base_pos[j]
                  IN /\ sampler_draw' = Some([node |-> node, base |-> base])
                     /\ IF DistanceWithin(node.position, base.position,
                                          c.min_distance, c.max_distance)
                        THEN /\ sampler_ret' = Some([ret |-> Some(node), raised |-> "none"])
                             /\ sampler_pc' = "idle"
                        ELSE /\ sampler_ret' = sampler_ret
                             /\ sampler_pc' = "while"
    /\ UNCHANGED <<sampler_call, samplerOthers>>

DistanceSamplerNext ==
    \/ \E node \in NodePool : call_add_node(node)
    \/ \E base_pos \in BaseLists, exclude_pos \in ExcludeLists, b \in DistanceBounds :
           start_get_random_node_with_distance(base_pos, exclude_pos, b[1], b[2])
    \/ sampling_turn

\* the running call always takes its next turn, and the draws of
\* random.choice do not avoid a returning pair for ever
DistanceSamplerSpec ==
    /\ Init /\ [][DistanceSamplerNext]_vars
    /\ WF_vars(sampling_turn)
    /\ WF_vars(sampling_turn /\ sampler_pc' = "idle")

\* C24: get_random_node_with_distance always terminates, by returning a node
\* or by failing, also when no candidate lies within the bounds of any base
\* node
DistanceSamplerTerminates == (sampler_pc = "while") ~> (sampler_pc = "idle")

RECURSIVE dfs(_, _, _, _, _)
RECURSIVE DfsNeighbours(_, _, _, _, _)

\* "for nbr in self.adjacency_list[node]: ..." of dfs, from the neighbour list
\* nbrs on; visited holds the positions of the nodes on the current path
DfsNeighbours(adj, nbrs, d, visited, target) ==
    IF nbrs = <<>> THEN None
    ELSE LET nbr == Head(nbrs)
         IN IF nbr.position \notin visited /\ nbr.type # "intersection"
            THEN LET found == dfs(adj, nbr, d + 1, visited, target)
                 IN IF found # None THEN found
                    ELSE DfsNeighbours(adj, Tail(nbrs), d, visited, target)
            ELSE DfsNeighbours(adj, Tail(nbrs), d, visited, target)

\* dfs(node, d, visited) of get_random_node_with_edge_distance: Some(node
\* found) or None
dfs(adj, node, d, visited, target) ==
    IF d = target /\ node.type # "intersection" THEN Some(node)
    ELSE DfsNeighbours(adj, Neighbours(adj, node), d, visited \cup {node.position}, target)

RECURSIVE VisitPassable(_, _, _, _)
\* "for nbr in self.adjacency_list[node]: if nbr not in seen and nbr.type !=
\* 'intersection': ..." of the fallback
VisitPassable(nbrs, q, seen, dist) ==
    IF nbrs = <<>> THEN [queue |-> q, seen |-> seen]
    ELSE LET nbr == Head(nbrs)
         IN IF nbr.position \notin seen /\ nbr.type # "intersection"
            THEN VisitPassable(Tail(nbrs), Append(q, <<nbr, dist + 1>>),
                               seen \cup {nbr.position}, dist)
            ELSE VisitPassable(Tail(nbrs), q, seen, dist)

RECURSIVE ClosestLoop(_, _, _, _, _, _)
\* the while loop of the fallback: the node whose distance from start is
\* nearest to target, None when there is none
ClosestLoop(adj, q, seen, target, closest, best_diff) ==
    IF q = <<>> THEN closest
    ELSE LET node == Head(q)[1]
             dist == Head(q)[2]
             diff == IF dist >= target THEN dist - target ELSE target - dist
             better == diff < best_diff /\ node.type # "intersection"
             r == VisitPassable(Neighbours(adj, node), Tail(q), seen, dist)
         IN ClosestLoop(adj, r.queue, r.seen, target,
                        IF better THEN Some(node) ELSE closest,
                        IF better THEN diff ELSE best_diff)

\* edges handed to add_edge: a triangle of the three normal nodes, and the
\* intersection joined to one of them
EdgePool ==
    { Edge(NodeO, NodeP), Edge(NodeP, NodeQ), Edge(NodeO, NodeQ), Edge(NodeP, NodeI) }

\* arguments of get_random_node_with_edge_distance
EdgeBaseLists == {<<NodeO>>, <<NodeI>>}

EdgeExcludeLists == {<<>>, <<NodeQ>>}

EdgeBounds == {<<0, 0>>, <<2, 2>>, <<1, 2>>}

\* map.get_random_node_with_edge_distance(base_pos, exclude_pos,
\* min_distance, max_distance); reading adjacency_list[start] gives a start
\* without entry an empty one
get_random_node_with_edge_distance(base_pos, exclude_pos, min_distance, max_distance) ==
    /\ sampler_pc = "idle"
    /\ \E i \in 1..Len(base_pos), target \in min_distance..max_distance :
          LET not_intersections ==
                  SelectSeq(Ascending(nodes), LAMBDA n : n.type # "intersection")
              candidates == WithoutExcluded(not_intersections, exclude_pos)
              start == base_pos[i]
              result == dfs(adjacency_list, start, 0, {}, target)
              closest == ClosestLoop(adjacency_list, <<<<start, 0>>>>, {start.position},
                                     target, None, Inf)
              call == [base_pos |-> base_pos, exclude_pos |-> exclude_pos,
                       min_distance |-> min_distance, max_distance |-> max_distance,
                       candidates |-> candidates]
              touched == IF \/ target = 0 /\ start.type # "intersection"
                            \/ \E key \in DOMAIN adjacency_list : NodeEq(key, start)
                         THEN adjacency_list
                         ELSE (start :> <<>>) @@ adjacency_list
          IN /\ sampler_call' = Some(call)
             /\ sampler_draw' = Some([start |-> start, target |-> target])
             /\ adjacency_list' = touched
             /\ IF result # None
                THEN sampler_ret' = Some([ret |-> result, raised |-> "none", by |-> "dfs"])
                ELSE IF closest # None
                THEN sampler_ret' = Some([ret |-> closest, raised |-> "none", by |-> "closest"])
                ELSE IF candidates = <<>>
                THEN sampler_ret' = Some([ret |-> None, raised |-> "IndexError", by |-> "choice"])
                ELSE \E k \in 1..Len(candidates) :
                        sampler_ret' = Some([ret |-> Some(candidates[k]), raised |-> "none",
                                             by |-> "choice"])
    /\ UNCHANGED <<sampler_pc, nodes, edges, road_objects, edge_distance, random_node,
                   map_loads, graphOthers>>

EdgeSamplerNext ==
    \/ \E node \in {NodeQ} : call_add_node(node)
    \/ \E edge \in EdgePool : call_add_edge(edge)
    \/ \E base_pos \in EdgeBaseLists, exclude_pos \in EdgeExcludeLists, b \in EdgeBounds :
           get_random_node_with_edge_distance(base_pos, exclude_pos, b[1], b[2])

EdgeSamplerSpec == Init /\ [][EdgeSamplerNext]_vars

\* C25: when the search of get_random_node_with_edge_distance succeeds, the
\* minimum number of edges between the chosen base node and the returned
\* node, as get_edge_distance_between_two_points computes it, lies in
\* [min_distance, max_distance], and the returned node is not in exclude_pos
EdgeSamplerWithinBounds ==
    sampler_ret # None /\ sampler_ret[1].by = "dfs" =>
        LET c == sampler_call[1]
            start == sampler_draw[1].start
            node == sampler_ret[1].ret[1]
            least == get_edge_distance_between_two_points(adjacency_list, start, node)
        IN /\ least # None
           /\ c.min_distance <= least[1] /\ least[1] <= c.max_distance
           /\ ~InList(c.exclude_pos, node)

(***************************************************************************)
(* RoadUtils.merge_point_if_close (road_utils.py): endpoint snapping        *)
(***************************************************************************)

\* the endpoint the call is about: segment.start or segment.end
EndpointOf(segment, point_type) ==
    IF point_type = "start" THEN segment.start ELSE segment.end

RECURSIVE ClosestEndpoint(_, _, _, _, _)
\* the loop over segments: best is [closest_point, min_sq], min_sq the square
\* of min_distance; a segment equal to the argument is skipped, and so is an
\* endpoint at distance 0 or not closer than the best so far
ClosestEndpoint(segment, point, segments, i, best) ==
    IF i > Len(segments) THEN best
    ELSE IF segments[i] = segment
         THEN ClosestEndpoint(segment, point, segments, i + 1, best)
    ELSE LET dist_to_start == SquaredDistance(point, segments[i].start)
             b1 == IF 0 < dist_to_start /\ dist_to_start < best.min_sq
                   THEN [closest_point |-> Some(segments[i].start), min_sq |-> dist_to_start]
                   ELSE best
             dist_to_end == SquaredDistance(point, segments[i].end)
             b2 == IF 0 < dist_to_end /\ dist_to_end < b1.min_sq
                   THEN [closest_point |-> Some(segments[i].end), min_sq |-> dist_to_end]
                   ELSE b1
         IN  ClosestEndpoint(segment, point, segments, i + 1, b2)

\* merge_point_if_close(segment, point_type, segments, merge_distance): the
\* segment after the call and the value returned
merge_point_if_close(segment, point_type, segments, merge_distance) ==
    LET point == EndpointOf(segment, point_type)
        best  == ClosestEndpoint(segment, point, segments, 1,
                     [closest_point |-> None, min_sq |-> merge_distance * merge_distance])
    IN  IF best.closest_point # None
        THEN [segment |-> IF point_type = "start"
                          THEN [segment EXCEPT !.start = best.closest_point[1]]
                          ELSE [segment EXCEPT !.end = best.closest_point[1]],
              ret |-> TRUE]
        ELSE [segment |-> segment, ret |-> FALSE]

\* segments the calls are made with: a short one, its neighbour on the same
\* line, one leaving its start at a right angle, and one far away
MergeShort == Segment(Point(0, 0), Point(3, 0), MetaInfo(FALSE, 0))
MergeNeighbour == Segment(Point(3, 0), Point(10, 0), MetaInfo(FALSE, 0))
MergeSide  == Segment(Point(0, 1), Point(0, 10), MetaInfo(FALSE, 0))
MergeFar   == Segment(Point(20, 20), Point(30, 20), MetaInfo(TRUE, 0))

MergeSegments == {MergeShort, MergeNeighbour, MergeSide, MergeFar}

MergeLists == [1..1 -> MergeSegments] \cup [1..2 -> MergeSegments]

SnapDistances == {2, 5}

\* a call of merge_point_if_close on the member `index` of the list; the
\* list holds the segment object, so it shows the moved endpoint afterwards
call_merge_point_if_close(segments, index, point_type, merge_distance) ==
    /\ index \in 1..Len(segments)
    /\ LET out == merge_point_if_close(segments[index], point_type, segments, merge_distance)
       IN  merge_call' = Some([segment |-> segments[index], point_type |-> point_type,
                               segments |-> segments, index |-> index,
                               merge_distance |-> merge_distance,
                               segment_after |-> out.segment,
                               segments_after |-> [segments EXCEPT ![index] = out.segment],
                               ret |-> out.ret])
    /\ UNCHANGED mergeOthers

MergeNext ==
    \E segments \in MergeLists, index \in 1..2, point_type \in {"start", "end"},
       merge_distance \in SnapDistances :
        call_merge_point_if_close(segments, index, point_type, merge_distance)

MergeSpec == Init /\ [][MergeNext]_vars

\* the endpoints of the other segments of the call c that lie within
\* merge_distance of the chosen endpoint, away from it
NearEndpoints(c) ==
    LET point == EndpointOf(c.segment, c.point_type)
    IN  {e \in UNION {{c.segments[i].start, c.segments[i].end} :
                        i \in {j \in 1..Len(c.segments) : c.segments[j] # c.segment}} :
            /\ 0 < SquaredDistance(point, e)
            /\ SquaredDistance(point, e) < c.merge_distance * c.merge_distance}

\* the chosen endpoint ends on a closest near endpoint, or stays when there is
\* none; the other endpoint and the other segments are as before
MergeSnapsToClosest ==
    merge_call # None =>
        LET c      == merge_call[1]
            point  == EndpointOf(c.segment, c.point_type)
            moved  == EndpointOf(c.segment_after, c.point_type)
            other  == IF c.point_type = "start" THEN "end" ELSE "start"
        IN  /\ c.ret = (NearEndpoints(c) # {})
            /\ IF c.ret
               THEN /\ moved \in NearEndpoints(c)
                    /\ \A e \in NearEndpoints(c) :
                           SquaredDistance(point, moved) <= SquaredDistance(point, e)
               ELSE moved = point
            /\ EndpointOf(c.segment_after, other) = EndpointOf(c.segment, other)
            /\ c.segment_after.q = c.segment.q
            /\ \A i \in 1..Len(c.segments) :
                   i # c.index => c.segments_after[i] = c.segments[i]

\* C26: merge_point_if_close moves the chosen endpoint onto the closest
\* endpoint of another segment within merge_distance, leaves the other
\* endpoint and the other segments unchanged, and never makes the start and
\* the end of the segment coincide
MergeNeverDegenerates ==
    /\ MergeSnapsToClosest
    /\ merge_call # None =>
           merge_call[1].segment_after.start # merge_call[1].segment_after.end

(***************************************************************************)
(* Retry decorators (llm/retry.py)                                          *)
(***************************************************************************)

\* most retries a wrapper is built with
MaxRetries == 3

\* what one invocation of func can do: return, or raise one of these
\* (RateLimitError is a subclass of APIError; ValueError stands for every
\* exception outside both retry lists)
FuncOutcomes == {"return", "APIError", "RateLimitError", "LLMResponseParsingError", "ValueError"}

\* a mutant of the except clauses: every exception is caught and retried
CatchesAll(decorator, exc) == exc # "return"

\* "except api_exceptions" of retry_api_call, "except LLMResponseParsingError"
\* of retry_parsing
Catches(decorator, exc) ==
    IF decorator = "retry_api_call"
    THEN exc \in {"APIError", "RateLimitError"}
    ELSE exc = "LLMResponseParsingError"

\* the wrapper made by retry_api_call(max_retries) is called
retry_api_call(max_retries) ==
    /\ retry_pc = "idle"
    /\ retry_pc' = "for"
    /\ retry_call' = Some([decorator |-> "retry_api_call", max_retries |-> max_retries])
    /\ attempt' = 0
    /\ retry_log' = <<>>
    /\ last_exception' = None
    /\ retry_ret' = None
    /\ UNCHANGED retryOthers

\* the wrapper made by retry_parsing(max_retries) is called
retry_parsing(max_retries) ==
    /\ retry_pc = "idle"
    /\ retry_pc' = "for"
    /\ retry_call' = Some([decorator |-> "retry_parsing", max_retries |-> max_retries])
    /\ attempt' = 0
    /\ retry_log' = <<>>
    /\ last_exception' = None
    /\ retry_ret' = None
    /\ UNCHANGED retryOthers

\* range(max_retries + 1) is used up: "raise last_exception" after the loop;
\* raising None is a TypeError
loop_exhausted ==
    /\ retry_pc = "for"
    /\ attempt > retry_call[1].max_retries
    /\ retry_pc' = "done"
    /\ retry_ret' = Some([ret |-> None,
                          raised |-> IF last_exception = None
                                     THEN Some([type |-> "TypeError", at |-> 0])
                                     ELSE last_exception])
    /\ UNCHANGED <<retry_call, attempt, retry_log, last_exception, retryOthers>>

\* one turn of "for attempt in range(max_retries + 1)": func is invoked (after
\* the rate-limit sleep) and returns or raises exc; its return value and its
\* exception carry the number of the invocation
wrapper_turn(exc) ==
    /\ retry_pc = "for"
    /\ attempt <= retry_call[1].max_retries
    /\ LET at == Len(retry_log) + 1
           e  == [type |-> exc, at |-> at]
       IN  /\ retry_log' = Append(retry_log, e)
           /\ IF exc = "return"
              THEN /\ retry_ret' = Some([ret |-> Some(at), raised |-> None])
                   /\ retry_pc' = "done"
                   /\ UNCHANGED <<attempt, last_exception>>
              ELSE IF Catches(retry_call[1].decorator, exc)
              THEN /\ last_exception' = Some(e)
                   /\ IF attempt = retry_call[1].max_retries
                      THEN /\ retry_ret' = Some([ret |-> None, raised |-> Some(e)])
                           /\ retry_pc' = "done"
                           /\ UNCHANGED attempt
                      ELSE /\ attempt' = attempt + 1
                           /\ UNCHANGED <<retry_ret, retry_pc>>
              ELSE /\ retry_ret' = Some([ret |-> None, raised |-> Some(e)])
                   /\ retry_pc' = "done"
                   /\ UNCHANGED <<attempt, last_exception>>
    /\ UNCHANGED <<retry_call, retryOthers>>

RetryNext ==
    \/ \E max_retries \in -1..MaxRetries : retry_api_call(max_retries)
    \/ \E max_retries \in -1..MaxRetries : retry_parsing(max_retries)
    \/ loop_exhausted
    \/ \E exc \in FuncOutcomes : wrapper_turn(exc)

RetrySpec == Init /\ [][RetryNext]_vars

\* the errors a wrapper retries on: the OpenAI API errors for retry_api_call,
\* LLMResponseParsingError for retry_parsing
RetryableError(decorator, exc) ==
    \/ decorator = "retry_api_call" /\ exc \in {"APIError", "RateLimitError"}
    \/ decorator = "retry_parsing" /\ exc = "LLMResponseParsingError"

\* C28: per call of the wrapper func is invoked at most max_retries + 1
\* times; every invocation but the last failed with a retryable error; the
\* wrapper returns the result of the first invocation that succeeds, re-raises
\* the last retryable error after max_retries + 1 retryable failures in a
\* row, and lets any other exception out from the invocation that raised it
RetryBounded ==
    retry_call # None =>
        LET c == retry_call[1]
            n == Len(retry_log)
        IN  /\ n <= c.max_retries + 1
            /\ \A i \in 1..(n - 1) : RetryableError(c.decorator, retry_log[i].type)
            /\ retry_pc = "for" =>
                   /\ retry_ret = None
                   /\ \A i \in 1..n : RetryableError(c.decorator, retry_log[i].type)
            /\ (retry_pc = "done" /\ n > 0) =>
                   IF retry_log[n].type = "return"
                   THEN retry_ret = Some([ret |-> Some(retry_log[n].at), raised |-> None])
                   ELSE /\ retry_ret = Some([ret |-> None, raised |-> Some(retry_log[n])])
                        /\ RetryableError(c.decorator, retry_log[n].type) =>
                               n = c.max_retries + 1

\* a wrapper with at least one retry gave up: every invocation failed with a
\* retryable error and the last one is raised
RetryWitness ==
    /\ retry_pc = "done"
    /\ retry_call[1].max_retries >= 1
    /\ Len(retry_log) = retry_call[1].max_retries + 1
    /\ retry_ret[1].raised = Some(retry_log[Len(retry_log)])
    /\ RetryableError(retry_call[1].decorator, retry_log[Len(retry_log)].type)

(***************************************************************************)
(* Map.add_node, Map.add_edge and Map.connect_adjacent_roads called in any  *)
(* order                                                                    *)
(***************************************************************************)

AdjacencyNext ==
    \/ \E node \in NodePool : call_add_node(node)
    \/ \E edge \in EdgePool : call_add_edge(edge)
    \/ call_connect_adjacent_roads

AdjacencySpec == Init /\ [][AdjacencyNext]_vars

\* the number of times b stands in adjacency_list[a]
TimesAdjacent(a, b) ==
    IF \E key \in DOMAIN adjacency_list : NodeEq(key, a)
    THEN LET k == CHOOSE key \in DOMAIN adjacency_list : NodeEq(key, a)
         IN Cardinality({i \in 1..Len(adjacency_list[k]) : NodeEq(adjacency_list[k][i], b)})
    ELSE 0

\* b in adjacency_list[a] iff a in adjacency_list[b] iff Edge(a, b) in edges
AdjacencySymmetric ==
    \A a, b \in NodePool :
        /\ (TimesAdjacent(a, b) > 0) = (TimesAdjacent(b, a) > 0)
        /\ (TimesAdjacent(a, b) > 0) = has_edge(TheMap, Edge(a, b))

\* C29: after any sequence of add_edge and connect_adjacent_roads calls, b is
\* in adjacency_list[a] iff a is in adjacency_list[b] iff Edge(a, b) is in
\* edges, and b appears at most once in adjacency_list[a], also when the same
\* edge is added more than once
AdjacencyConsistent ==
    /\ AdjacencySymmetric
    /\ \A a, b \in NodePool : TimesAdjacent(a, b) <= 1

(***************************************************************************)
(* Equality and hashing of positions (vector.py, map.py), with coordinates  *)
(* counted in ten-thousandths, the grid Vector.__post_init__ rounds to      *)
(***************************************************************************)

\* round(v, 4) of a coordinate given in hundred-thousandths, as a number of
\* ten-thousandths; the inputs tried are not half-way between two of them
Round4(v) == (v + 5) \div 10

\* Vector(x, y) with __post_init__, x and y in hundred-thousandths
RoundedVector(x, y) == Vector(Round4(x), Round4(y))

\* the tolerance 1e-3 of Vector.__eq__, in ten-thousandths
EqTolerance == 10

Magnitude(v) == IF v < 0 THEN -v ELSE v

\* Vector.__eq__: both coordinates closer than the tolerance
VectorEq(a, b) ==
    /\ Magnitude(a.x - b.x) < EqTolerance
    /\ Magnitude(a.y - b.y) < EqTolerance

\* Vector.__hash__: the hash of the coordinate pair, equal for equal pairs
\* only
VectorHash(v) == <<v.x, v.y>>

\* Node.__eq__ and Node.__hash__
NodeEqual(a, b) == VectorEq(a.position, b.position)

NodeHash(n) == VectorHash(n.position)

\* Edge.__eq__: the same positions in either order
EdgeEqual(e, f) ==
    \/ VectorEq(e.node1.position, f.node1.position) /\ VectorEq(e.node2.position, f.node2.position)
    \/ VectorEq(e.node1.position, f.node2.position) /\ VectorEq(e.node2.position, f.node1.position)

\* Edge.__hash__: the hash of the two positions, the one first by x then y
\* in front
EdgeHash(e) ==
    LET p == e.node1.position
        q == e.node2.position
    IN IF p.x < q.x \/ (p.x = q.x /\ p.y <= q.y)
       THEN <<VectorHash(p), VectorHash(q)>>
       ELSE <<VectorHash(q), VectorHash(p)>>

\* "node in S" for a set of nodes or the keys of a dict: a member with the
\* hash of the node that compares equal to it
NodeIn(S, node) == \E m \in S : NodeHash(m) = NodeHash(node) /\ NodeEqual(m, node)

\* "edge in S" for a set of edges
EdgeIn(S, edge) == \E m \in S : EdgeHash(m) = EdgeHash(edge) /\ EdgeEqual(m, edge)

\* S.add(x): x is put in unless it is a member in that sense
NodeSetAdd(S, node) == IF NodeIn(S, node) THEN S ELSE S \cup {node}

EdgeSetAdd(S, edge) == IF EdgeIn(S, edge) THEN S ELSE S \cup {edge}

\* adjacency_list[node].append(nbr) on the defaultdict
DictAppend(adj, node, nbr) ==
    IF NodeIn(DOMAIN adj, node)
    THEN LET k == CHOOSE key \in DOMAIN adj : NodeHash(key) = NodeHash(node) /\ NodeEqual(key, node)
         IN [adj EXCEPT ![k] = Append(@, nbr)]
    ELSE (node :> <<nbr>>) @@ adj

\* positions tried, in hundred-thousandths: 0 and 0.00004 round to the same
\* point, 0.0005 is within the tolerance of it and of 0.0012, and 0.0012 is
\* not within the tolerance of 0
NearCoordinates == {0, 4, 50, 120}

NearNodes == {Node(RoundedVector(x, y), "normal") : x \in NearCoordinates, y \in {0, 50}}

FarNode == Node(RoundedVector(500000, 0), "normal")

NearEdges == {Edge(n, FarNode) : n \in {m \in NearNodes : m.position.y = 0}}
                \cup {Edge(FarNode, Node(RoundedVector(50, 0), "normal"))}

\* map.add_node(node) for a node of NearNodes
add_near_node(node) ==
    /\ nodes' = NodeSetAdd(nodes, node)
    /\ UNCHANGED <<edges, adjacency_list, road_objects, edge_distance, random_node, map_loads,
                   mapOthers>>

\* map.add_edge(edge) for an edge of NearEdges
add_near_edge(edge) ==
    /\ EdgeCalls(adjacency_list, DOMAIN adjacency_list) < 2 * MaxEdgeCalls
    /\ edges' = EdgeSetAdd(edges, edge)
    /\ adjacency_list' = DictAppend(DictAppend(adjacency_list, edge.node1, edge.node2),
                                    edge.node2, edge.node1)
    /\ UNCHANGED <<nodes, road_objects, edge_distance, random_node, map_loads, mapOthers>>

HashNext ==
    \/ \E node \in NearNodes : add_near_node(node)
    \/ \E edge \in NearEdges : add_near_edge(edge)

HashSpec == Init /\ [][HashNext]_vars

\* C30: positions that compare equal have equal hashes, likewise the nodes and
\* edges built on them, so Map.nodes and Map.edges never hold two members
\* that compare equal
EqualMembersHashEqual ==
    /\ \A a, b \in nodes :
           /\ VectorEq(a.position, b.position) => VectorHash(a.position) = VectorHash(b.position)
           /\ NodeEqual(a, b) => NodeHash(a) = NodeHash(b) /\ a = b
    /\ \A e, f \in edges : EdgeEqual(e, f) => EdgeHash(e) = EdgeHash(f) /\ e = f

====
